---- MODULE Spec2Model ----
(***************************************************************************)
(* Picking Console Size Calculator: the background script's fetch /        *)
(* extract / aggregate orchestration, in its two deployments:              *)
(*   "tab"    - background.js lines 1-459: identifiers and weights are     *)
(*              requested from the Rodeo and FC Research content scripts   *)
(*              (navigate-resume transport), one call at a time;           *)
(*   "direct" - background.js lines 461-795: identifiers and weights are   *)
(*              fetched over HTTP by the background script itself.         *)
(* Weights are held in thousandths of a pound, rounded statistics in       *)
(* hundredths of a pound; time is in milliseconds.                         *)
(***************************************************************************)
EXTENDS Integers, Sequences, FiniteSets, TLC

VARIABLES
  deployment,     \* which variant of background.js is running
  now,            \* Date.now()
  weightCache,    \* Map cacheKey -> [weight, timestamp]
  connectedTabs,  \* role -> tab id, NoTab for null
  req,            \* per fetchBatchData request: the locals of handleFetchBatchData
  dropped,        \* history: entries removed by the last clearCache and not put again since
  broadcast,      \* the connectionStatusUpdate sent by the latest registry event, if any
  event,          \* history, kept by the registry specification: the event handled last
  agent,          \* the content scripts of the Rodeo and the FC Research tab
  console         \* the content script of the picking console tab

vars ==
  <<deployment, now, weightCache, connectedTabs, req, dropped, broadcast, event, agent, console>>

----------------------------------------------------------------------------
\* Bounds of the model

MaxTicks == 2
MaxDataReady == 1
Reqs == {1}
Callers == {1, 2}
Tabs == {1, 2, 3}
Warehouses == {"IND8"}
Batches == {"B1"}

----------------------------------------------------------------------------
\* Program constants and value domains

CACHE_DURATION == 30 * 60 * 1000

\* the step by which the clock is observed to advance: half the cache
\* duration, so that an entry is seen at ages below, at and above it
TickStep == CACHE_DURATION \div 2

NoTab == 0
NoWeight == 0 - 1

Roles == {"pickingConsole", "rodeo", "fcresearch"}

\* the substring of the URL by which each role is recognised
Marker(role) ==
  CASE role = "pickingConsole" -> "picking-console"
    [] role = "rodeo" -> "rodeo"
    [] role = "fcresearch" -> "fcresearch"

\* a URL is modelled by the set of role markers it includes
Urls == SUBSET {"picking-console", "rodeo", "fcresearch"}

\* the page each tab is opened on, and the pages it can move to
HomeUrl(tabId) ==
  CASE tabId = 1 -> {"picking-console"}
    [] tabId = 2 -> {"rodeo"}
    [] OTHER -> {"fcresearch"}
Visits == {<<tabId, HomeUrl(tabId)>> : tabId \in Tabs} \cup {<<tabId, {}>> : tabId \in Tabs}

\* cell texts: the classes of the validation patterns
StrictTokens == {"X00000000A", "X00000000B", "B00000000C",
                 "X00000000D", "X00000000E", "X00000000F",
                 "X00000000G", "X00000000H"}
BroadTokens == {"A1B2C3D4E5"}
ShortTokens == {"LPN123"}
OtherTokens == {"n/a"}

\* /^[XB][A-Z0-9]{9,}$/
MatchesStrict(text) == text \in StrictTokens
\* /^[A-Z0-9]{10,}$/
MatchesBroad(text) == text \in StrictTokens \cup BroadTokens
\* /^[A-Z0-9]+$/
MatchesUpperAlnum(text) == text \in StrictTokens \cup BroadTokens \cup ShortTokens

\* Rodeo result pages: the texts of the FN SKU column of the data rows, and
\* the words of the page outside the table. These pages list at most two
\* distinct items, so that the cache can be followed over time; WidePages
\* has the batch of six
RodeoPages == {
  [cells |-> <<>>, text |-> <<>>],
  [cells |-> <<"X00000000A", "X00000000A", "X00000000B">>, text |-> <<>>],
  [cells |-> <<"LPN123", "n/a">>, text |-> <<>>],
  [cells |-> <<>>, text |-> <<"X00000000B", "X00000000B">>] }

WidePages == {
  [cells |-> <<"X00000000A", "X00000000B", "B00000000C",
               "X00000000D", "X00000000E", "X00000000F">>, text |-> <<>>] }

\* one batch of three units of two items, as its page lists them in the
\* three orders in which the units can have been picked
ReorderedPages == {
  [cells |-> <<"X00000000G", "X00000000G", "X00000000H">>, text |-> <<>>],
  [cells |-> <<"X00000000G", "X00000000H", "X00000000G">>, text |-> <<>>],
  [cells |-> <<"X00000000H", "X00000000G", "X00000000G">>, text |-> <<>>] }

\* a page of five units of one item, and pages of one unit of another item
\* with some of them
RepeatedPages == {
  [cells |-> <<"X00000000H", "X00000000H", "X00000000H", "X00000000H", "X00000000H">>,
   text |-> <<>>],
  [cells |-> <<"X00000000G", "X00000000H", "X00000000H">>, text |-> <<>>],
  [cells |-> <<"X00000000G", "X00000000H">>, text |-> <<>>] }

NoPage == [cells |-> <<>>, text |-> <<"none">>]

\* an FC Research result page: rows holds the value cells of the rows whose
\* label cell reads "weight", in document order; of each cell's text,
\* number is parseFloat of its first run of digits and dots and withUnit
\* parseFloat of the first such run that a unit (pounds, lbs) follows;
\* textMatch and htmlMatch are parseFloat of the first match of the
\* fallback pattern over the page text and over the html. NoWeight stands
\* for no match. Weights are in thousandths of a pound.
ValueCell(number, withUnit) == [number |-> number, withUnit |-> withUnit]

WeightPage(rows, textMatch, htmlMatch) ==
  [rows |-> rows, textMatch |-> textMatch, htmlMatch |-> htmlMatch]

\* the result page FC Research serves for an item
FCResearchPage(fnsku) ==
  CASE fnsku = "X00000000A" ->         \* "0.125 pounds"
         WeightPage(<<ValueCell(125, 125)>>, 125, 125)
    [] fnsku = "X00000000B" ->         \* "1.0", and "Weight: 2 lbs" in a note
         WeightPage(<<ValueCell(1000, NoWeight)>>, 2000, NoWeight)
    [] fnsku = "B00000000C" ->         \* "0.00 pounds"
         WeightPage(<<ValueCell(0, 0)>>, 0, 0)
    [] fnsku = "X00000000D" ->         \* "1500 grams"
         WeightPage(<<ValueCell(1500000, NoWeight)>>, NoWeight, NoWeight)
    [] fnsku = "X00000000G" ->         \* "0.1 pounds"
         WeightPage(<<ValueCell(100, 100)>>, 100, 100)
    [] fnsku = "X00000000H" ->         \* "0.235 pounds"
         WeightPage(<<ValueCell(235, 235)>>, 235, 235)
    [] OTHER ->                        \* "N/A", then "1 x 1.375 lbs"
         WeightPage(<<ValueCell(NoWeight, NoWeight), ValueCell(1000, 1375)>>, 1375, 1375)

----------------------------------------------------------------------------
\* Pure helpers

RECURSIVE SeqFilter(_, _)
SeqFilter(s, keep) ==
  IF s = <<>> THEN <<>>
  ELSE IF Head(s) \in keep THEN <<Head(s)>> \o SeqFilter(Tail(s), keep)
       ELSE SeqFilter(Tail(s), keep)

Range(s) == {s[i] : i \in 1..Len(s)}

\* variant: the list is passed on with its repeats
DedupeKeepsRepeats(s) == s

\* [...new Set(list)]: first occurrences, in order
RECURSIVE Dedupe(_)
Dedupe(s) ==
  IF s = <<>> THEN <<>>
  ELSE LET init == Dedupe(SubSeq(s, 1, Len(s) - 1))
           last == s[Len(s)]
       IN IF last \in Range(init) THEN init ELSE Append(init, last)


IndexOf(s, x) == CHOOSE i \in 1..Len(s) : s[i] = x

MinOf(S) == CHOOSE x \in S : \A y \in S : x <= y

EmptyMap == [k \in {} |-> 0]
MapPut(m, k, v) == [x \in DOMAIN m \cup {k} |-> IF x = k THEN v ELSE m[x]]
MapDrop(m, k) == [x \in DOMAIN m \ {k} |-> m[x]]

----------------------------------------------------------------------------
\* Numbers
\*
\* A weight is a JavaScript Number, an IEEE 754 double: 53 significant
\* bits, every operation rounded to the nearest double, a tie to the even
\* one. A double is held here as a fixed-point numeral of six limbs of 18
\* bits, limb 1 the least significant: limbs 1..4 are the 72 bits after
\* the binary point and limbs 5..6 the integer part. Every double from
\* 2^-19 up to 2^36 is such a numeral, as are the exact sums and the exact
\* hundredfolds of such doubles before they are rounded; the weights, sums
\* and quotients of this model lie between 0.0001 and 10^7.

Base == 2^18
Limbs == 1..6
Zero == [i \in Limbs |-> 0]

\* the numeral of the limb values v, the carries passed upwards
Normalise(v) ==
  LET c[i \in 0..6] == IF i = 0 THEN 0 ELSE (v[i] + c[i - 1]) \div Base
  IN [i \in Limbs |-> (v[i] + c[i - 1]) % Base]

FromInteger(n) == [i \in Limbs |-> IF i = 5 THEN n % Base ELSE IF i = 6 THEN n \div Base ELSE 0]

\* the exact sum, the exact multiple by a small k, and the quotient by a
\* small d with its remainder
ExactSum(x, y) == Normalise([i \in Limbs |-> x[i] + y[i]])
ExactTimes(x, k) == Normalise([i \in Limbs |-> x[i] * k])
ExactQuotient(x, d) ==
  LET r[i \in 1..7] == IF i = 7 THEN 0 ELSE (r[i + 1] * Base + x[i]) % d
  IN [q |-> [i \in Limbs |-> (r[i + 1] * Base + x[i]) \div d], r |-> r[1]]

\* 1, 0 or -1 as x is greater than, equal to or less than y
Compare(x, y) ==
  LET differ == {i \in Limbs : x[i] # y[i]}
  IN IF differ = {} THEN 0
     ELSE LET top == CHOOSE i \in differ : \A j \in differ : j <= i
          IN IF x[top] > y[top] THEN 1 ELSE 0 - 1

\* the number of bits of the numeral x # Zero, from its leading 1 down to
\* the last of the 72 fraction bits
BitLength(x) ==
  LET top == CHOOSE i \in Limbs : x[i] # 0 /\ \A j \in Limbs : j > i => x[j] = 0
  IN 18 * (top - 1) + (CHOOSE k \in 1..18 : 2^(k - 1) <= x[top] /\ x[top] < 2^k)

PowerOfTwo(bit) == [i \in Limbs |-> IF i = bit \div 18 + 1 THEN 2^(bit % 18) ELSE 0]

\* the double nearest to the value x (+ a positive amount below one unit
\* of limb 1, if inexact): the first 53 bits are kept and the rest is
\* rounded to the nearest, a tie to the even neighbour
RoundToDouble(x, inexact) ==
  IF x = Zero \/ BitLength(x) <= 53 THEN x
  ELSE LET drop == BitLength(x) - 53
           a == drop \div 18 + 1
           b == drop % 18
           rest == [i \in Limbs |-> IF i < a THEN x[i]
                                    ELSE IF i = a THEN x[i] % 2^b ELSE 0]
           kept == [i \in Limbs |-> x[i] - rest[i]]
           odd == (x[a] \div 2^b) % 2 = 1
           c == Compare(rest, PowerOfTwo(drop - 1))
       IN IF c > 0 \/ (c = 0 /\ (inexact \/ odd))
          THEN ExactSum(kept, PowerOfTwo(drop)) ELSE kept

\* parseFloat of the decimal numeral of n thousandths
parseFloat(n) ==
  LET division == ExactQuotient(FromInteger(n), 1000)
  IN RoundToDouble(division.q, division.r # 0)

\* x + y, x * 100 and x / n of two Numbers, n a small integer
NumberSum(x, y) == RoundToDouble(ExactSum(x, y), FALSE)
NumberTimes100(x) == RoundToDouble(ExactTimes(x, 100), FALSE)
NumberDividedBy(x, n) ==
  LET division == ExactQuotient(x, n)
  IN RoundToDouble(division.q, division.r # 0)

\* variant: the fraction is cut off
MathFloor(x) == x[5] + Base * x[6]

\* Math.round: the nearest integer, a tie towards +infinity
MathRound(x) == x[5] + Base * x[6] + (IF 2 * x[4] >= Base THEN 1 ELSE 0)

\* Math.round(x * 100) / 100 in hundredths: the quotient of an integer k
\* by 100 is the double nearest to k / 100, one for each k
RoundToCents(x) == MathRound(NumberTimes100(x))

\* weights.reduce((sum, w) => sum + w, 0)
NumberTotal(ws) ==
  LET sum[i \in 0..Len(ws)] == IF i = 0 THEN Zero ELSE NumberSum(sum[i - 1], ws[i])
  IN sum[Len(ws)]

\* Math.min(...weights) and Math.max(...weights)
MathMin(ws) == CHOOSE x \in Range(ws) : \A y \in Range(ws) : Compare(x, y) <= 0
MathMax(ws) == CHOOSE x \in Range(ws) : \A y \in Range(ws) : Compare(x, y) >= 0

----------------------------------------------------------------------------
\* Pattern extraction

\* variant: the matches over the page text are added to those of the table
CollectFNSKUsMerged(page) ==
  LET pageText == page.cells \o page.text
  IN SeqFilter(page.cells, {t \in Range(page.cells) : MatchesStrict(t) \/ MatchesBroad(t)})
     \o SeqFilter(pageText, {t \in Range(pageText) : MatchesStrict(t)})

\* rodeo.js extractFNSKUsFromPage up to its last step: one entry per table
\* cell that passes the validation, else one per match of the regex over
\* the page text
CollectFNSKUs(page) ==
  LET fromTable == SeqFilter(page.cells, {t \in Range(page.cells) :
                                            MatchesStrict(t) \/ MatchesBroad(t)})
      pageText == page.cells \o page.text
  IN IF fromTable # <<>> THEN fromTable
     ELSE SeqFilter(pageText, {t \in Range(pageText) : MatchesStrict(t)})

\* rodeo.js extractFNSKUsFromPage: the collected list, deduplicated
extractFNSKUsFromPage(page) == Dedupe(CollectFNSKUs(page))

\* background.js (direct) parseRodeoFNSKUs: second-column cells that are
\* upper-case alphanumeric, else the regex over the html; no deduplication
parseRodeoFNSKUs(page) ==
  LET fromTable == SeqFilter(page.cells, {t \in Range(page.cells) : MatchesUpperAlnum(t)})
      html == page.cells \o page.text
  IN IF fromTable # <<>> THEN fromTable
     ELSE SeqFilter(html, {t \in Range(html) : MatchesStrict(t)})

\* the loop over the table rows, common to extractWeightFromPage and
\* parseFCResearchWeight: the first "weight" row whose value cell holds a
\* number decides, the number before a unit preferred
RECURSIVE WeightFromRows(_)
WeightFromRows(rows) ==
  IF rows = <<>> THEN NoWeight
  ELSE IF Head(rows).withUnit # NoWeight THEN Head(rows).withUnit
  ELSE IF Head(rows).number # NoWeight THEN Head(rows).number
  ELSE WeightFromRows(Tail(rows))

\* fcresearch.js extractWeightFromPage: the table, else the pattern over
\* the page text, else null
extractWeightFromPage(page) ==
  LET fromTable == WeightFromRows(page.rows)
  IN IF fromTable # NoWeight THEN fromTable ELSE page.textMatch

\* background.js (direct) parseFCResearchWeight: the table, else the
\* pattern over the html, else null
parseFCResearchWeight(page) ==
  LET fromTable == WeightFromRows(page.rows)
  IN IF fromTable # NoWeight THEN fromTable ELSE page.htmlMatch

\* the weight the agent extracts from the page of an item
PageWeight(fnsku) == extractWeightFromPage(FCResearchPage(fnsku))

----------------------------------------------------------------------------
\* Weight cache

CacheKey(warehouseId, fnsku) == <<warehouseId, fnsku>>

\* variant: an entry is still served at the age of exactly CACHE_DURATION
CacheHitInclusive(cache, key, t) ==
  key \in DOMAIN cache /\ t - cache[key].timestamp <= CACHE_DURATION

\* cached && (Date.now() - cached.timestamp < CACHE_DURATION)
CacheHit(cache, key, t) ==
  key \in DOMAIN cache /\ t - cache[key].timestamp < CACHE_DURATION

CachePut(cache, key, weight, t) ==
  MapPut(cache, key, [weight |-> weight, timestamp |-> t])

----------------------------------------------------------------------------
\* Connection registry

\* variant: only the picking console is looked at
areAllTabsConnectedConsoleOnly(tabs) == tabs["pickingConsole"] # NoTab

areAllTabsConnected(tabs) ==
  /\ tabs["pickingConsole"] # NoTab
  /\ tabs["rodeo"] # NoTab
  /\ tabs["fcresearch"] # NoTab

\* the names the three checks push, in their order
getMissingTabs(tabs) ==
  (IF tabs["pickingConsole"] = NoTab THEN <<"Picking Console">> ELSE <<>>)
  \o (IF tabs["rodeo"] = NoTab THEN <<"Rodeo">> ELSE <<>>)
  \o (IF tabs["fcresearch"] = NoTab THEN <<"FC Research">> ELSE <<>>)

NoEvent == [kind |-> "none", tabId |-> NoTab, url |-> {}]

NoBroadcast ==
  [type |-> "none", to |-> NoTab, allConnected |-> FALSE, missing |-> <<>>,
   tabs |-> [role \in Roles |-> FALSE]]

\* variant: the status is computed but sent to nobody
broadcastConnectionStatusUnsent(tabs) == NoBroadcast

\* broadcastConnectionStatus: the status message, sent to the picking
\* console tab when one is registered
broadcastConnectionStatus(tabs) ==
  IF tabs["pickingConsole"] # NoTab
  THEN [type |-> "connectionStatusUpdate", to |-> tabs["pickingConsole"],
        allConnected |-> areAllTabsConnected(tabs),
        missing |-> getMissingTabs(tabs),
        tabs |-> [role \in Roles |-> tabs[role] # NoTab]]
  ELSE NoBroadcast

----------------------------------------------------------------------------
\* Aggregation (steps 3 and 4 of handleFetchBatchData)

\* uniqueFNSKUs.forEach: the identifiers whose result carries a weight
BuildWeightMap(unique, results) ==
  LET have == {i \in 1..Len(unique) : results[i].weight # NoWeight}
  IN [f \in {unique[i] : i \in have} |-> results[IndexOf(unique, f)].weight]

\* fnskus.map(f => weightMap.get(f)).filter(w => w !== null && w !== undefined)
RECURSIVE MapWeights(_, _)
MapWeights(fnskus, weightMap) ==
  IF fnskus = <<>> THEN <<>>
  ELSE IF Head(fnskus) \in DOMAIN weightMap /\ weightMap[Head(fnskus)] # NoWeight
       THEN <<weightMap[Head(fnskus)]>> \o MapWeights(Tail(fnskus), weightMap)
       ELSE MapWeights(Tail(fnskus), weightMap)

ErrorResult(tag) ==
  [kind |-> "Error", error |-> tag, totalItems |-> 0, itemsWithWeight |-> 0,
   averageWeight |-> 0, totalWeight |-> 0, minWeight |-> 0, maxWeight |-> 0,
   uniqueSKUs |-> 0, missingTabs |-> <<>>, message |-> "none"]

NoResult == ErrorResult("pending")

\* variant: the items are counted over the deduplicated list
StatisticsOverUnique(fnskus, unique, weights) ==
  LET numbers == [i \in 1..Len(weights) |-> parseFloat(weights[i])]
      totalWeight == NumberTotal(numbers)
      averageWeight == NumberDividedBy(totalWeight, Len(weights))
  IN [kind |-> "BatchResult", error |-> "none",
      totalItems |-> Len(unique),
      itemsWithWeight |-> Cardinality(Range(weights)),
      averageWeight |-> RoundToCents(averageWeight),
      totalWeight |-> RoundToCents(totalWeight),
      minWeight |-> RoundToCents(MathMin(numbers)),
      maxWeight |-> RoundToCents(MathMax(numbers)),
      uniqueSKUs |-> Len(unique), missingTabs |-> <<>>, message |-> "none"]

\* step 4: the statistics over the weights of the list, which the model
\* holds in thousandths of a pound as the pages show them and the code
\* holds as the Numbers parseFloat made of them; the rounded statistics
\* are in hundredths
Statistics(fnskus, unique, weights) ==
  LET numbers == [i \in 1..Len(weights) |-> parseFloat(weights[i])]
      totalWeight == NumberTotal(numbers)
      averageWeight == NumberDividedBy(totalWeight, Len(weights))
  IN [kind |-> "BatchResult", error |-> "none",
      totalItems |-> Len(fnskus),
      itemsWithWeight |-> Len(weights),
      averageWeight |-> RoundToCents(averageWeight),
      totalWeight |-> RoundToCents(totalWeight),
      minWeight |-> RoundToCents(MathMin(numbers)),
      maxWeight |-> RoundToCents(MathMax(numbers)),
      uniqueSKUs |-> Len(unique), missingTabs |-> <<>>, message |-> "none"]

\* variant: the statistics are emitted although no weight was found
AggregateUnchecked(fnskus, unique, weightMap) ==
  LET weights == MapWeights(fnskus, weightMap)
  IN IF Len(weights) = 0
     THEN [ErrorResult("none") EXCEPT !.kind = "BatchResult", !.totalItems = Len(fnskus),
                                      !.uniqueSKUs = Len(unique)]
     ELSE Statistics(fnskus, unique, weights)

Aggregate(fnskus, unique, weightMap) ==
  LET weights == MapWeights(fnskus, weightMap)
  IN IF Len(weights) = 0 THEN ErrorResult("noWeights")
     ELSE Statistics(fnskus, unique, weights)

----------------------------------------------------------------------------
\* The locals of one handleFetchBatchData call

TodoResult == [st |-> "todo", weight |-> NoWeight, error |-> "none", fromCache |-> FALSE]
PendingResult == [st |-> "pending", weight |-> NoWeight, error |-> "none", fromCache |-> FALSE]
CachedResult(w) == [st |-> "done", weight |-> w, error |-> "none", fromCache |-> TRUE]
ReplyResult(w, err) == [st |-> "done", weight |-> w, error |-> err, fromCache |-> FALSE]

NoRodeoResult == [error |-> "none", fnskus |-> <<>>, defined |-> FALSE]

IdleReq ==
  [pc |-> "idle", batchId |-> "B1", warehouseId |-> "IND8", page |-> NoPage,
   rodeoResult |-> NoRodeoResult, fnskus |-> <<>>, uniqueFNSKUs |-> <<>>,
   weightResults |-> <<>>, sent |-> <<>>, weightMap |-> EmptyMap,
   aggregated |-> FALSE, result |-> NoResult, rodeoMessages |-> 0]

Outstanding(q) == {i \in 1..Len(q.weightResults) : q.weightResults[i].st = "pending"}

\* variant: the request is sent without consulting the cache
LookupOrSendUncached(q, cache, t, i) ==
  [q EXCEPT !.weightResults[i] = PendingResult,
            !.sent = Append(q.sent, q.uniqueFNSKUs[i])]

\* the first lines of fetchWeightViaFCResearchTab / fetchWeightFromFCResearch
\* for uniqueFNSKUs[i]: a valid cache entry is returned, otherwise the
\* request is sent and the call is outstanding
LookupOrSend(q, cache, t, i) ==
  LET fnsku == q.uniqueFNSKUs[i]
      key == CacheKey(q.warehouseId, fnsku)
  IN IF CacheHit(cache, key, t)
     THEN [q EXCEPT !.weightResults[i] = CachedResult(cache[key].weight)]
     ELSE [q EXCEPT !.weightResults[i] = PendingResult,
                    !.sent = Append(q.sent, fnsku)]

\* direct deployment, uniqueFNSKUs.map(...) under Promise.all: every call
\* is started before any of them is awaited
RECURSIVE ParallelMap(_, _, _, _)
ParallelMap(q, cache, t, i) ==
  IF i > Len(q.uniqueFNSKUs) THEN q
  ELSE ParallelMap(LookupOrSend(q, cache, t, i), cache, t, i + 1)

\* variant: the loop starts every call without awaiting the one before
SequentialLoopUnawaited(q, cache, t, i) == ParallelMap(q, cache, t, i)

\* tab deployment, the for loop of step 2 from position i: each iteration
\* awaits its call, so the loop runs on until a request had to be sent
RECURSIVE SequentialLoop(_, _, _, _)
SequentialLoop(q, cache, t, i) ==
  IF i > Len(q.uniqueFNSKUs) THEN q
  ELSE LET q1 == LookupOrSend(q, cache, t, i)
       IN IF q1.weightResults[i].st = "pending" THEN q1
          ELSE SequentialLoop(q1, cache, t, i + 1)

\* steps 3 and 4, once every weight result is in
Finish(q) ==
  LET weightMap == BuildWeightMap(q.uniqueFNSKUs, q.weightResults)
  IN [q EXCEPT !.pc = "done", !.weightMap = weightMap, !.aggregated = TRUE,
               !.result = Aggregate(q.fnskus, q.uniqueFNSKUs, weightMap)]

\* variant: the first failed call ends the request
FinishIfCompleteOrFailed(q) ==
  IF \E i \in 1..Len(q.weightResults) : q.weightResults[i].error # "none"
  THEN [q EXCEPT !.pc = "done", !.result = ErrorResult("exception")]
  ELSE IF \A i \in 1..Len(q.weightResults) : q.weightResults[i].st = "done"
  THEN Finish(q) ELSE [q EXCEPT !.pc = "awaitWeights"]

FinishIfComplete(q) ==
  IF \A i \in 1..Len(q.weightResults) : q.weightResults[i].st = "done"
  THEN Finish(q) ELSE [q EXCEPT !.pc = "awaitWeights"]

\* variant: an empty identifier list goes on to the weight stage
AfterRodeoNoEmptyCheck(q, rodeoResult, cache, t, dep) ==
  LET q0 == [q EXCEPT !.rodeoResult = rodeoResult]
  IN IF ~rodeoResult.defined
     THEN [q0 EXCEPT !.pc = "done", !.result = ErrorResult("exception")]
     ELSE IF rodeoResult.error # "none"
     THEN [q0 EXCEPT !.pc = "done",
                     !.result = [ErrorResult("rodeoError") EXCEPT
                                   !.message = rodeoResult.error]]
     ELSE LET unique == Dedupe(rodeoResult.fnskus)
              q1 == [q0 EXCEPT !.fnskus = rodeoResult.fnskus,
                               !.uniqueFNSKUs = unique,
                               !.weightResults = [i \in 1..Len(unique) |-> TodoResult]]
          IN FinishIfComplete(IF dep = "tab" THEN SequentialLoop(q1, cache, t, 1)
                              ELSE ParallelMap(q1, cache, t, 1))

\* handleFetchBatchData from the resolver's answer to the next suspension
AfterRodeo(q, rodeoResult, cache, t, dep) ==
  LET q0 == [q EXCEPT !.rodeoResult = rodeoResult]
  IN IF ~rodeoResult.defined
     THEN [q0 EXCEPT !.pc = "done", !.result = ErrorResult("exception")]
     ELSE IF rodeoResult.error # "none"
     THEN [q0 EXCEPT !.pc = "done",
                     !.result = [ErrorResult("rodeoError") EXCEPT
                                   !.message = rodeoResult.error]]
     ELSE IF Len(rodeoResult.fnskus) = 0
     THEN [q0 EXCEPT !.pc = "done", !.result = ErrorResult("noFNSKUs")]
     ELSE LET unique == Dedupe(rodeoResult.fnskus)
              q1 == [q0 EXCEPT !.fnskus = rodeoResult.fnskus,
                               !.uniqueFNSKUs = unique,
                               !.weightResults = [i \in 1..Len(unique) |-> TodoResult]]
          IN FinishIfComplete(IF dep = "tab" THEN SequentialLoop(q1, cache, t, 1)
                              ELSE ParallelMap(q1, cache, t, 1))

----------------------------------------------------------------------------
\* The content scripts (agents) of the Rodeo and the FC Research tab

Agents == {"rodeo", "fcresearch"}

\* a pending request in sessionStorage is served within 30 seconds
PENDING_MAX_AGE == 30000

\* the step by which the agents see the clock advance: half that age
WaitStep == PENDING_MAX_AGE \div 2

\* locations: the search url built by fetchFNSKUsViaRodeoTab, the result url
\* built by fetchWeightViaFCResearchTab, and the page a tab was opened on
RodeoUrl(warehouseId, batchId) == <<"rodeo", warehouseId, batchId>>
FCResearchUrl(warehouseId, fnsku) == <<"fcresearch", warehouseId, fnsku>>
HomeLocation(a) == <<a, "", "">>
NoUrl == <<"", "", "">>

\* the pages a location can show when it is loaded
AgentRodeoPages == {
  [cells |-> <<"X00000000B">>, text |-> <<"X00000000A">>],
  [cells |-> <<"LPN123">>, text |-> <<"X00000000A", "X00000000A">>],
  [cells |-> <<"X00000000A", "X00000000B">>, text |-> <<>>] }

NoWeightPage == WeightPage(<<>>, NoWeight, NoWeight)

Served(url) ==
  IF url[1] = "rodeo" THEN AgentRodeoPages
  ELSE {FCResearchPage(url[3]), NoWeightPage}

\* the sessionStorage of a tab: a map from keys to stored values; each
\* content script stores its pending request under one key
PendingKey(a) == IF a = "rodeo" THEN "pcs_pending_extract" ELSE "pcs_pending_weight"

\* sessionStorage.getItem gives the pending request of agent a
HasTicket(ag, a) == PendingKey(a) \in DOMAIN ag.sessionStorage

\* variant: an item that is there is not overwritten
setItemKeepsOld(storage, key, value) ==
  IF key \in DOMAIN storage THEN storage ELSE MapPut(storage, key, value)

setItem(storage, key, value) == MapPut(storage, key, value)
removeItem(storage, key) == MapDrop(storage, key)

\* the stored pending request: batchId or fnsku, warehouseId, Date.now()
PendingRequest(message, t) ==
  [payload |-> message.payload, warehouseId |-> message.warehouseId, timestamp |-> t]

NoMessage == [url |-> NoUrl, payload |-> "", warehouseId |-> ""]

\* what a run of checkPendingExtract / checkPendingWeight found: nothing,
\* a request that it served, or a request too old and its age
NoResume == [outcome |-> "none", age |-> 0]

\* the reply to a navigateAndExtract message
NoReply ==
  [kind |-> "none", error |-> "none", fnskus |-> <<>>, weight |-> NoWeight, page |-> NoPage]
NavigationReply ==
  [kind |-> "reply", error |-> "navigation", fnskus |-> <<>>, weight |-> NoWeight,
   page |-> NoPage]
RejectedReply ==
  [kind |-> "reply", error |-> "thrown", fnskus |-> <<>>, weight |-> NoWeight,
   page |-> NoPage]

\* extractFNSKUsFromPage / extractWeightFromPage on the document of the tab
Extraction(a, document) ==
  IF a = "rodeo"
  THEN [kind |-> "reply", error |-> "none", fnskus |-> extractFNSKUsFromPage(document),
        weight |-> NoWeight, page |-> document]
  ELSE [kind |-> "reply", error |-> "none", fnskus |-> <<>>,
        weight |-> extractWeightFromPage(document), page |-> document]

\* a content script: the location and the document of its tab, the location
\* the tab is loading, its sessionStorage, the message being handled and the
\* position in handleNavigateAndExtract, the reply to the message it
\* handled, the rodeoDataReady / fcresearchDataReady messages on their way
\* to the background script, and (history) its last extraction and what
\* the last run of checkPendingExtract / checkPendingWeight found
AgentAtHome(a) ==
  [href |-> HomeLocation(a),
   document |-> IF a = "rodeo" THEN NoPage ELSE NoWeightPage,
   loading |-> NoUrl, sessionStorage |-> EmptyMap, handling |-> NoMessage,
   pc |-> "idle", reply |-> NoReply, dataReady |-> <<>>, last |-> NoReply,
   resume |-> NoResume]

\* the navigateAndExtract messages of a request that are with the agent
RodeoMessage(q) ==
  [url |-> RodeoUrl(q.warehouseId, q.batchId), payload |-> q.batchId,
   warehouseId |-> q.warehouseId]
WeightMessage(q, i) ==
  [url |-> FCResearchUrl(q.warehouseId, q.uniqueFNSKUs[i]), payload |-> q.uniqueFNSKUs[i],
   warehouseId |-> q.warehouseId]
InFlight(a, q) ==
  IF a = "rodeo" THEN (IF q.pc = "awaitRodeo" THEN {RodeoMessage(q)} ELSE {})
  ELSE {WeightMessage(q, i) : i \in Outstanding(q)}

\* the first statement of the navigation branch: rodeo.js assigns
\* window.location.href, fcresearch.js stores the pending request
BeginNavigation(ag, a, message, t) ==
  IF a = "rodeo"
  THEN [ag EXCEPT !.loading = message.url, !.handling = message, !.pc = "assigned"]
  ELSE [ag EXCEPT !.sessionStorage = setItem(ag.sessionStorage, PendingKey(a),
                                             PendingRequest(message, t)),
                  !.handling = message, !.pc = "stored"]

\* variant: the agent reloads the target even when it is on it
handleNavigateAndExtractReloads(ag, a, message, t) == BeginNavigation(ag, a, message, t)

\* handleNavigateAndExtract of rodeo.js and of fcresearch.js, from the
\* message to the first statement of the navigation branch, or through the
\* extraction in place
handleNavigateAndExtract(ag, a, message, t) ==
  IF ag.href # message.url
  THEN BeginNavigation(ag, a, message, t)
  ELSE [ag EXCEPT !.reply = Extraction(a, ag.document),
                  !.last = Extraction(a, ag.document)]

\* variant: the promise of the navigation branch never resolves
continueNavigationNeverResolves(ag, a, t) ==
  IF ag.pc = "assigned"
  THEN [ag EXCEPT !.sessionStorage = setItem(ag.sessionStorage, PendingKey(a),
                                             PendingRequest(ag.handling, t)),
                  !.pc = "timer"]
  ELSE IF ag.pc = "stored"
  THEN [ag EXCEPT !.loading = ag.handling.url, !.pc = "timer"]
  ELSE ag

\* the navigation branch of handleNavigateAndExtract after its first
\* statement: rodeo.js stores the pending request, fcresearch.js assigns
\* window.location.href; then, after the timeout, the promise resolves with
\* the navigation error
continueNavigation(ag, a, t) ==
  IF ag.pc = "assigned"
  THEN [ag EXCEPT !.sessionStorage = setItem(ag.sessionStorage, PendingKey(a),
                                             PendingRequest(ag.handling, t)),
                  !.pc = "timer"]
  ELSE IF ag.pc = "stored"
  THEN [ag EXCEPT !.loading = ag.handling.url, !.pc = "timer"]
  ELSE [ag EXCEPT !.reply = NavigationReply, !.handling = NoMessage, !.pc = "idle"]

\* the rodeoDataReady / fcresearchDataReady message: the extraction from
\* the document, with the batchId or fnsku and the warehouseId of the
\* pending request
DataReadyMessage(ag, a) ==
  [data |-> Extraction(a, ag.document),
   payload |-> ag.sessionStorage[PendingKey(a)].payload,
   warehouseId |-> ag.sessionStorage[PendingKey(a)].warehouseId]

\* variant: the pending request is left in sessionStorage when it is served
checkPendingKeepsItem(ag, a, t) ==
  IF ~HasTicket(ag, a)
  THEN [ag EXCEPT !.resume = [outcome |-> "nothing", age |-> 0]]
  ELSE LET age == t - ag.sessionStorage[PendingKey(a)].timestamp
       IN IF age < PENDING_MAX_AGE
          THEN [ag EXCEPT !.dataReady = Append(ag.dataReady,
                                               DataReadyMessage(ag, a)),
                          !.last = Extraction(a, ag.document),
                          !.resume = [outcome |-> "delivered", age |-> 0]]
          ELSE [ag EXCEPT !.sessionStorage = removeItem(ag.sessionStorage, PendingKey(a)),
                          !.resume = [outcome |-> "expired", age |-> age]]

\* variant: a pending request is still served at the age of 30 seconds
checkPendingInclusive(ag, a, t) ==
  IF ~HasTicket(ag, a)
  THEN [ag EXCEPT !.resume = [outcome |-> "nothing", age |-> 0]]
  ELSE LET age == t - ag.sessionStorage[PendingKey(a)].timestamp
       IN IF age <= PENDING_MAX_AGE
          THEN [ag EXCEPT !.sessionStorage = removeItem(ag.sessionStorage, PendingKey(a)),
                          !.dataReady = Append(ag.dataReady,
                                               DataReadyMessage(ag, a)),
                          !.last = Extraction(a, ag.document),
                          !.resume = [outcome |-> "delivered", age |-> 0]]
          ELSE [ag EXCEPT !.sessionStorage = removeItem(ag.sessionStorage, PendingKey(a)),
                          !.resume = [outcome |-> "expired", age |-> age]]

\* checkPendingExtract / checkPendingWeight, run when the script starts: a
\* pending request younger than 30 seconds is removed and served with a
\* rodeoDataReady / fcresearchDataReady message, an older one is removed
checkPending(ag, a, t) ==
  IF ~HasTicket(ag, a)
  THEN [ag EXCEPT !.resume = [outcome |-> "nothing", age |-> 0]]
  ELSE LET age == t - ag.sessionStorage[PendingKey(a)].timestamp
       IN IF age < PENDING_MAX_AGE
          THEN [ag EXCEPT !.sessionStorage = removeItem(ag.sessionStorage, PendingKey(a)),
                          !.dataReady = Append(ag.dataReady,
                                               DataReadyMessage(ag, a)),
                          !.last = Extraction(a, ag.document),
                          !.resume = [outcome |-> "delivered", age |-> 0]]
          ELSE [ag EXCEPT !.sessionStorage = removeItem(ag.sessionStorage, PendingKey(a)),
                          !.resume = [outcome |-> "expired", age |-> age]]

----------------------------------------------------------------------------
\* The content script of the picking console tab

CONFIG_warehouseId == "IND8"

\* the state of pickingConsole.js when the script has been set up
ConsoleAtStart ==
  [processingBatches |-> {},
   batchResults |-> EmptyMap,
   connectionStatus |-> [allConnected |-> FALSE, missing |-> <<"Rodeo", "FC Research">>]]

\* the batches that Fetch All Weights selects, and whose cell has the fetch
\* button: those with no result that are not being fetched
\* the batches that the table of the picking console lists
Rows == {"B1", "B2"}

Unfetched(c) == {b \in Rows : b \notin DOMAIN c.batchResults /\ b \notin c.processingBatches}

----------------------------------------------------------------------------
\* Initial state: the background script has just been loaded

Init ==
  /\ deployment \in {"tab", "direct"}
  /\ now = 0
  /\ weightCache = EmptyMap
  /\ connectedTabs = [role \in Roles |-> NoTab]
  /\ req = [r \in Callers |-> IdleReq]
  /\ dropped = EmptyMap
  /\ broadcast = NoBroadcast
  /\ event = NoEvent
  /\ agent = [a \in Agents |-> AgentAtHome(a)]
  /\ console = ConsoleAtStart

----------------------------------------------------------------------------
\* Actions

\* the clock advances between two handlers
Tick ==
  /\ now < MaxTicks * TickStep
  /\ now' = now + TickStep
  /\ UNCHANGED <<deployment, weightCache, connectedTabs, req, dropped, broadcast, event, agent,
                 console>>

\* onMessage 'contentScriptReady': handleContentScriptReady and, in the tab
\* deployment, broadcastConnectionStatus
ContentScriptReady(tabId, url) ==
  /\ connectedTabs' =
         IF "picking-console" \in url THEN [connectedTabs EXCEPT !["pickingConsole"] = tabId]
         ELSE IF "rodeo" \in url THEN [connectedTabs EXCEPT !["rodeo"] = tabId]
         ELSE IF "fcresearch" \in url THEN [connectedTabs EXCEPT !["fcresearch"] = tabId]
         ELSE connectedTabs
  /\ broadcast' = IF deployment = "tab" THEN broadcastConnectionStatus(connectedTabs')
                  ELSE NoBroadcast
  /\ UNCHANGED <<deployment, now, weightCache, req, dropped, agent, console>>

\* variant: a tab that is closed is forgotten under the first role only
TabRemovedFirstRoleOnly(tabId) ==
  /\ connectedTabs' =
         IF connectedTabs["pickingConsole"] = tabId
         THEN [connectedTabs EXCEPT !["pickingConsole"] = NoTab]
         ELSE IF connectedTabs["rodeo"] = tabId
         THEN [connectedTabs EXCEPT !["rodeo"] = NoTab]
         ELSE IF connectedTabs["fcresearch"] = tabId
         THEN [connectedTabs EXCEPT !["fcresearch"] = NoTab]
         ELSE connectedTabs
  /\ broadcast' = IF deployment = "tab" /\ connectedTabs' # connectedTabs
                  THEN broadcastConnectionStatus(connectedTabs') ELSE NoBroadcast
  /\ UNCHANGED <<deployment, now, weightCache, req, dropped, agent, console>>

\* browser.tabs.onRemoved; the tab deployment broadcasts when a role changed
TabRemoved(tabId) ==
  /\ connectedTabs' = [role \in Roles |->
                           IF connectedTabs[role] = tabId THEN NoTab
                           ELSE connectedTabs[role]]
  /\ broadcast' = IF deployment = "tab" /\ connectedTabs' # connectedTabs
                  THEN broadcastConnectionStatus(connectedTabs') ELSE NoBroadcast
  /\ UNCHANGED <<deployment, now, weightCache, req, dropped, agent, console>>

\* variant: a tab that loads a page of a role is taken for that role's agent
TabUpdatedRebinds(tabId, url) ==
  /\ connectedTabs' = [role \in Roles |->
                           IF Marker(role) \in url THEN tabId
                           ELSE IF connectedTabs[role] = tabId THEN NoTab
                           ELSE connectedTabs[role]]
  /\ broadcast' = IF deployment = "tab" /\ connectedTabs' # connectedTabs
                  THEN broadcastConnectionStatus(connectedTabs') ELSE NoBroadcast
  /\ UNCHANGED <<deployment, now, weightCache, req, dropped, agent, console>>

\* browser.tabs.onUpdated with changeInfo.url; the tab deployment
\* broadcasts when a role changed
TabUpdated(tabId, url) ==
  /\ connectedTabs' = [role \in Roles |->
                           IF connectedTabs[role] = tabId /\ Marker(role) \notin url
                           THEN NoTab ELSE connectedTabs[role]]
  /\ broadcast' = IF deployment = "tab" /\ connectedTabs' # connectedTabs
                  THEN broadcastConnectionStatus(connectedTabs') ELSE NoBroadcast
  /\ UNCHANGED <<deployment, now, weightCache, req, dropped, agent, console>>

\* variant: only the entries that have expired are removed
ClearCacheExpiredOnly ==
  /\ weightCache' = [k \in {x \in DOMAIN weightCache : CacheHit(weightCache, x, now)} |->
                       weightCache[k]]
  /\ dropped' = [k \in DOMAIN dropped \cup DOMAIN weightCache |->
                   IF k \in DOMAIN weightCache THEN weightCache[k].timestamp ELSE dropped[k]]
  /\ UNCHANGED <<deployment, now, connectedTabs, req, broadcast, event, agent, console>>

\* onMessage 'clearCache'
ClearCache ==
  /\ weightCache' = EmptyMap
  /\ dropped' = [k \in DOMAIN dropped \cup DOMAIN weightCache |->
                   IF k \in DOMAIN weightCache THEN weightCache[k].timestamp ELSE dropped[k]]
  /\ UNCHANGED <<deployment, now, connectedTabs, req, broadcast, event, agent, console>>

\* handleFetchBatchData of the tab deployment up to its first await: the
\* error that names the missing tabs, or the message sent to the Rodeo tab
CheckTabsAndSend(batchId, warehouseId, tabs) ==
  IF ~areAllTabsConnected(tabs)
  THEN [IdleReq EXCEPT
          !.pc = "done", !.batchId = batchId, !.warehouseId = warehouseId,
          !.result = [ErrorResult("missingTabs") EXCEPT
                        !.missingTabs = getMissingTabs(tabs)]]
  ELSE [IdleReq EXCEPT !.pc = "awaitRodeo", !.batchId = batchId,
                       !.warehouseId = warehouseId, !.rodeoMessages = 1]

\* variant: the request goes to the Rodeo tab without the check of the tabs
StartTabUngated(r) ==
  /\ deployment = "tab"
  /\ req[r].pc = "idle"
  /\ \E batchId \in Batches : \E warehouseId \in Warehouses :
       req' = [req EXCEPT ![r] =
                 [IdleReq EXCEPT !.pc = "awaitRodeo", !.batchId = batchId,
                                 !.warehouseId = warehouseId, !.rodeoMessages = 1]]
  /\ UNCHANGED <<deployment, now, weightCache, connectedTabs, dropped, broadcast, event, agent,
                 console>>

\* onMessage 'fetchBatchData', tab deployment: handleFetchBatchData up to
\* the message sent to the Rodeo tab
StartTab(r) ==
  /\ deployment = "tab"
  /\ req[r].pc = "idle"
  /\ \E batchId \in Batches : \E warehouseId \in Warehouses :
       req' = [req EXCEPT ![r] = CheckTabsAndSend(batchId, warehouseId, connectedTabs)]
  /\ UNCHANGED <<deployment, now, weightCache, connectedTabs, dropped, broadcast, event, agent,
                 console>>

\* variant: a call to a role without a tab can be answered like any other
FromTabAnyway(tabs, role, answers) == answers

\* browser.tabs.sendMessage(connectedTabs[role], ...): when the role has no
\* tab (it was closed or left the site after the check of the tabs), the
\* message has no receiver and the call is rejected
FromTab(tabs, role, answers) ==
  IF tabs[role] = NoTab THEN {a \in answers : a.error = "thrown"} ELSE answers

\* the answers fetchFNSKUsViaRodeoTab can hand back: the agent extracted
\* from the page it is on, the agent had to navigate, sendMessage was
\* rejected, or the message was answered with nothing
RodeoTabAnswers(pages) ==
  {[error |-> "none", fnskus |-> extractFNSKUsFromPage(page), defined |-> TRUE, page |-> page] :
     page \in pages}
  \cup {[error |-> e, fnskus |-> <<>>, defined |-> TRUE, page |-> NoPage] :
          e \in {"navigation", "thrown"}}
  \cup {[error |-> "none", fnskus |-> <<>>, defined |-> FALSE, page |-> NoPage]}

RodeoTabReply(r, pages) ==
  /\ deployment = "tab"
  /\ req[r].pc = "awaitRodeo"
  /\ \E a \in FromTab(connectedTabs, "rodeo", RodeoTabAnswers(pages)) :
       req' = [req EXCEPT ![r] =
                 AfterRodeo([req[r] EXCEPT !.page = a.page],
                            [error |-> a.error, fnskus |-> a.fnskus, defined |-> a.defined],
                            weightCache, now, "tab")]
  /\ UNCHANGED <<deployment, now, weightCache, connectedTabs, dropped, broadcast, event, agent,
                 console>>

\* the outcomes of the message sent by fetchWeightViaFCResearchTab: the
\* agent's reply with the extracted weight (a number or null), its
\* navigation-in-progress reply, a rejected sendMessage, or no reply object
WeightTabAnswers(fnsku) ==
  {[weight |-> w, error |-> "none"] : w \in {PageWeight(fnsku), NoWeight}}
  \cup {[weight |-> NoWeight, error |-> e] : e \in {"navigation", "thrown"}}

\* variant: a call that was answered with the navigation error is made again
WeightTabDeliverRetries(r, i, a) ==
  LET q == req[r]
      key == CacheKey(q.warehouseId, q.uniqueFNSKUs[i])
      cache == IF a.weight # NoWeight
               THEN CachePut(weightCache, key, a.weight, now)
               ELSE weightCache
      q1 == IF a.error = "navigation"
            THEN [q EXCEPT !.sent = Append(q.sent, q.uniqueFNSKUs[i])]
            ELSE [q EXCEPT !.weightResults[i] = ReplyResult(a.weight, a.error)]
  IN /\ weightCache' = cache
     /\ dropped' = IF a.weight # NoWeight THEN MapDrop(dropped, key) ELSE dropped
     /\ req' = [req EXCEPT ![r] =
                  IF a.error = "navigation" THEN q1
                  ELSE FinishIfComplete(SequentialLoop(q1, cache, now, i + 1))]

\* variant: the weight is not stored when the cache was cleared after the
\* call was made
WeightTabDeliverUnlessCleared(r, i, a) ==
  LET q == req[r]
      key == CacheKey(q.warehouseId, q.uniqueFNSKUs[i])
      cache == IF a.weight # NoWeight /\ key \notin DOMAIN dropped
               THEN CachePut(weightCache, key, a.weight, now)
               ELSE weightCache
      q1 == [q EXCEPT !.weightResults[i] = ReplyResult(a.weight, a.error)]
  IN /\ weightCache' = cache
     /\ dropped' = dropped
     /\ req' = [req EXCEPT ![r] = FinishIfComplete(SequentialLoop(q1, cache, now, i + 1))]

\* variant: the answer is stored whether or not it carries a weight
WeightTabDeliverStoresAll(r, i, a) ==
  LET q == req[r]
      key == CacheKey(q.warehouseId, q.uniqueFNSKUs[i])
      cache == CachePut(weightCache, key, a.weight, now)
      q1 == [q EXCEPT !.weightResults[i] = ReplyResult(a.weight, a.error)]
  IN /\ weightCache' = cache
     /\ dropped' = MapDrop(dropped, key)
     /\ req' = [req EXCEPT ![r] = FinishIfComplete(SequentialLoop(q1, cache, now, i + 1))]

\* fetchWeightViaFCResearchTab after its await with the answer a to the call
\* for uniqueFNSKUs[i], and handleFetchBatchData on to the next request
\* sent or to the end
WeightTabDeliver(r, i, a) ==
  LET q == req[r]
      key == CacheKey(q.warehouseId, q.uniqueFNSKUs[i])
      cache == IF a.weight # NoWeight
               THEN CachePut(weightCache, key, a.weight, now)
               ELSE weightCache
      q1 == [q EXCEPT !.weightResults[i] = ReplyResult(a.weight, a.error)]
  IN /\ weightCache' = cache
     /\ dropped' = IF a.weight # NoWeight THEN MapDrop(dropped, key) ELSE dropped
     /\ req' = [req EXCEPT ![r] = FinishIfComplete(SequentialLoop(q1, cache, now, i + 1))]

WeightTabReply(r) ==
  /\ deployment = "tab"
  /\ req[r].pc = "awaitWeights"
  /\ \E i \in Outstanding(req[r]) :
       \E a \in FromTab(connectedTabs, "fcresearch",
                       WeightTabAnswers(req[r].uniqueFNSKUs[i])) :
       WeightTabDeliver(r, i, a)
  /\ UNCHANGED <<deployment, now, connectedTabs, broadcast, event, agent, console>>

\* onMessage 'fetchBatchData', direct deployment: handleFetchBatchData up
\* to the fetch of the Rodeo search page
StartDirect(r) ==
  /\ deployment = "direct"
  /\ req[r].pc = "idle"
  /\ \E batchId \in Batches : \E warehouseId \in Warehouses :
       req' = [req EXCEPT ![r] = [IdleReq EXCEPT !.pc = "awaitRodeo", !.batchId = batchId,
                                                 !.warehouseId = warehouseId]]
  /\ UNCHANGED <<deployment, now, weightCache, connectedTabs, dropped, broadcast, event, agent,
                 console>>

\* what fetchFNSKUsFromRodeo returns: the parsed page, or the error of a
\* failed request
RodeoFetchAnswers(pages) ==
  {[error |-> "none", fnskus |-> parseRodeoFNSKUs(page), defined |-> TRUE, page |-> page] :
     page \in pages}
  \cup {[error |-> "thrown", fnskus |-> <<>>, defined |-> TRUE, page |-> NoPage]}

RodeoFetchReply(r, pages) ==
  /\ deployment = "direct"
  /\ req[r].pc = "awaitRodeo"
  /\ \E a \in RodeoFetchAnswers(pages) :
       req' = [req EXCEPT ![r] =
                 AfterRodeo([req[r] EXCEPT !.page = a.page],
                            [error |-> a.error, fnskus |-> a.fnskus, defined |-> a.defined],
                            weightCache, now, "direct")]
  /\ UNCHANGED <<deployment, now, weightCache, connectedTabs, dropped, broadcast, event, agent,
                 console>>

\* the outcomes of the fetch in fetchWeightFromFCResearch: a page whose
\* weight parses to a number or to null, or a failed request
WeightFetchAnswers(fnsku) ==
  {[weight |-> w, error |-> "none"] :
     w \in {parseFCResearchWeight(FCResearchPage(fnsku)), NoWeight}}
  \cup {[weight |-> NoWeight, error |-> "thrown"]}

\* fetchWeightFromFCResearch after its await; Promise.all resolves with
\* the last of the calls
WeightFetchReply(r) ==
  /\ deployment = "direct"
  /\ req[r].pc = "awaitWeights"
  /\ \E i \in Outstanding(req[r]) : \E a \in WeightFetchAnswers(req[r].uniqueFNSKUs[i]) :
       LET q == req[r]
           key == CacheKey(q.warehouseId, q.uniqueFNSKUs[i])
           q1 == [q EXCEPT !.weightResults[i] = ReplyResult(a.weight, a.error)]
       IN /\ weightCache' = IF a.weight # NoWeight
                            THEN CachePut(weightCache, key, a.weight, now)
                            ELSE weightCache
          /\ dropped' = IF a.weight # NoWeight THEN MapDrop(dropped, key) ELSE dropped
          /\ req' = [req EXCEPT ![r] = FinishIfComplete(q1)]
  /\ UNCHANGED <<deployment, now, connectedTabs, broadcast, event, agent, console>>

\* .then(result => sendResponse(result)): the request is over
Respond(r) ==
  /\ req[r].pc = "done"
  /\ req' = [req EXCEPT ![r] = IdleReq]
  /\ UNCHANGED <<deployment, now, weightCache, connectedTabs, dropped, broadcast, event, agent,
                 console>>

\* the content script of agent a handles the navigateAndExtract message
AgentHandle(a) ==
  /\ deployment = "tab"
  /\ agent[a].reply = NoReply
  /\ agent[a].pc = "idle"
  /\ \E r \in Reqs : \E message \in InFlight(a, req[r]) :
       agent' = [agent EXCEPT ![a] = handleNavigateAndExtract(agent[a], a, message, now)]
  /\ UNCHANGED <<deployment, now, weightCache, connectedTabs, req, dropped, broadcast, event,
                 console>>

\* tabs.sendMessage is rejected: the tab has no script listening
AgentMiss(a) ==
  /\ deployment = "tab"
  /\ agent[a].reply = NoReply
  /\ agent[a].pc = "idle"
  /\ \E r \in Reqs : InFlight(a, req[r]) # {}
  /\ agent' = [agent EXCEPT ![a].reply = RejectedReply]
  /\ UNCHANGED <<deployment, now, weightCache, connectedTabs, req, dropped, broadcast, event,
                 console>>

\* the content script of agent a runs the next statement of the navigation
\* branch of handleNavigateAndExtract
AgentStep(a) ==
  /\ deployment = "tab"
  /\ agent[a].pc # "idle"
  /\ agent' = [agent EXCEPT ![a] = continueNavigation(agent[a], a, now)]
  /\ UNCHANGED <<deployment, now, weightCache, connectedTabs, req, dropped, broadcast, event,
                 console>>

\* the location assigned to window.location.href has loaded: the content
\* script starts in the new document and looks for a pending request. A
\* load that comes before the timeout of the old document has fired closes
\* the message channel without a response
AgentLoad(a) ==
  /\ deployment = "tab"
  /\ agent[a].loading # NoUrl
  /\ agent[a].pc \in {"idle", "timer"}
  /\ HasTicket(agent[a], a) => Len(agent[a].dataReady) < MaxDataReady
  /\ \E document \in Served(agent[a].loading) :
       agent' = [agent EXCEPT ![a] =
                   checkPending([agent[a] EXCEPT
                                   !.href = agent[a].loading,
                                   !.loading = NoUrl,
                                   !.document = document,
                                   !.handling = NoMessage,
                                   !.pc = "idle",
                                   !.reply = IF agent[a].pc = "timer" THEN RejectedReply
                                             ELSE agent[a].reply], a, now)]
  /\ UNCHANGED <<deployment, now, weightCache, connectedTabs, req, dropped, broadcast, event,
                 console>>

\* the tab of agent a, at rest, loads the page it shows once more: the
\* content script starts again in the same page
AgentReload(a) ==
  /\ deployment = "tab"
  /\ agent[a].loading = NoUrl
  /\ agent[a].pc = "idle"
  /\ HasTicket(agent[a], a) => Len(agent[a].dataReady) < MaxDataReady
  /\ agent' = [agent EXCEPT ![a] =
                 checkPending([agent[a] EXCEPT !.handling = NoMessage], a, now)]
  /\ UNCHANGED <<deployment, now, weightCache, connectedTabs, req, dropped, broadcast, event,
                 console>>

\* the tab of agent a is loaded again while the location assigned to it
\* has not loaded yet (a reload, or a navigation that is given up): the
\* content script starts again in the page that the tab still shows
AgentRestart(a) ==
  /\ deployment = "tab"
  /\ agent[a].loading # NoUrl
  /\ agent[a].pc \in {"idle", "timer"}
  /\ HasTicket(agent[a], a) => Len(agent[a].dataReady) < MaxDataReady
  /\ agent' = [agent EXCEPT ![a] =
                 checkPending([agent[a] EXCEPT
                                 !.loading = NoUrl,
                                 !.handling = NoMessage,
                                 !.pc = "idle",
                                 !.reply = IF agent[a].pc = "timer" THEN RejectedReply
                                           ELSE agent[a].reply], a, now)]
  /\ UNCHANGED <<deployment, now, weightCache, connectedTabs, req, dropped, broadcast, event,
                 console>>

\* variant: the handler stores a weight that it is sent in the cache
DataReadyStoresWeight(a) ==
  /\ deployment = "tab"
  /\ agent[a].dataReady # <<>>
  /\ agent' = [agent EXCEPT ![a].dataReady = Tail(agent[a].dataReady)]
  /\ LET m == Head(agent[a].dataReady)
     IN weightCache' = IF a = "fcresearch" /\ m.data.weight # NoWeight
                       THEN CachePut(weightCache, CacheKey(m.warehouseId, m.payload),
                                     m.data.weight, now)
                       ELSE weightCache
  /\ UNCHANGED <<deployment, now, connectedTabs, req, dropped, broadcast, event, console>>

\* onMessage 'rodeoDataReady' / 'fcresearchDataReady': the background
\* script logs the data and acknowledges it
DataReady(a) ==
  /\ deployment = "tab"
  /\ agent[a].dataReady # <<>>
  /\ agent' = [agent EXCEPT ![a].dataReady = Tail(agent[a].dataReady)]
  /\ UNCHANGED <<deployment, now, weightCache, connectedTabs, req, dropped, broadcast, event,
                 console>>

\* time passes in the tabs
Wait ==
  /\ now < MaxTicks * WaitStep
  /\ now' = now + WaitStep
  /\ UNCHANGED <<deployment, weightCache, connectedTabs, req, dropped, broadcast, event, agent,
                 console>>

\* fetchFNSKUsViaRodeoTab after its await, with the reply of the agent
RodeoAgentReply(r) ==
  /\ deployment = "tab"
  /\ req[r].pc = "awaitRodeo"
  /\ agent["rodeo"].reply # NoReply
  /\ LET a == agent["rodeo"].reply
     IN req' = [req EXCEPT ![r] =
                  AfterRodeo([req[r] EXCEPT !.page = a.page],
                             [error |-> a.error, fnskus |-> a.fnskus, defined |-> TRUE],
                             weightCache, now, "tab")]
  /\ agent' = [agent EXCEPT !["rodeo"].reply = NoReply]
  /\ UNCHANGED <<deployment, now, weightCache, connectedTabs, dropped, broadcast, event, console>>

\* fetchWeightViaFCResearchTab after its await, with the reply of the agent
WeightAgentReply(r) ==
  /\ deployment = "tab"
  /\ req[r].pc = "awaitWeights"
  /\ agent["fcresearch"].reply # NoReply
  /\ \E i \in Outstanding(req[r]) :
       WeightTabDeliver(r, i, [weight |-> agent["fcresearch"].reply.weight,
                               error |-> agent["fcresearch"].reply.error])
  /\ agent' = [agent EXCEPT !["fcresearch"].reply = NoReply]
  /\ UNCHANGED <<deployment, now, connectedTabs, broadcast, event, console>>

\* variant: the answer to 'checkConnections' is not kept
CheckConnectionStatusDropsAnswer ==
  /\ deployment = "tab"
  /\ UNCHANGED <<deployment, now, weightCache, connectedTabs, req, dropped, broadcast, event,
                 agent, console>>

\* pickingConsole.js checkConnectionStatus: the answer to 'checkConnections'
CheckConnectionStatus ==
  /\ deployment = "tab"
  /\ console' = [console EXCEPT !.connectionStatus =
                   [allConnected |-> areAllTabsConnected(connectedTabs),
                    missing |-> getMissingTabs(connectedTabs)]]
  /\ UNCHANGED <<deployment, now, weightCache, connectedTabs, req, dropped, broadcast, event,
                 agent>>

\* pickingConsole.js onMessage 'connectionStatusUpdate'
ConnectionStatusUpdate ==
  /\ deployment = "tab"
  /\ broadcast.type = "connectionStatusUpdate"
  /\ console' = [console EXCEPT !.connectionStatus =
                   [allConnected |-> broadcast.allConnected, missing |-> broadcast.missing]]
  /\ UNCHANGED <<deployment, now, weightCache, connectedTabs, req, dropped, broadcast, event,
                 agent>>

\* variant: a batch that is being processed is fetched once more
FetchBatchWeightUnchecked(r, batchId) ==
  /\ deployment = "tab"
  /\ req[r].pc = "idle"
  /\ batchId \notin DOMAIN console.batchResults
  /\ console.connectionStatus.allConnected
  /\ console' = [console EXCEPT !.processingBatches = @ \cup {batchId}]
  /\ req' = [req EXCEPT ![r] = CheckTabsAndSend(batchId, CONFIG_warehouseId, connectedTabs)]
  /\ UNCHANGED <<deployment, now, weightCache, connectedTabs, dropped, broadcast, event, agent>>

\* pickingConsole.js fetchBatchWeight, called by the fetch button of the
\* batch or by fetchAllBatchWeights, up to its await; handleFetchBatchData
\* of the background script up to its first await
FetchBatchWeight(r, batchId) ==
  /\ deployment = "tab"
  /\ req[r].pc = "idle"
  /\ batchId \in Unfetched(console)
  /\ console.connectionStatus.allConnected
  /\ console' = [console EXCEPT !.processingBatches = @ \cup {batchId}]
  /\ req' = [req EXCEPT ![r] = CheckTabsAndSend(batchId, CONFIG_warehouseId, connectedTabs)]
  /\ UNCHANGED <<deployment, now, weightCache, connectedTabs, dropped, broadcast, event, agent>>

\* sendResponse(result) in the background script, and fetchBatchWeight
\* after its await: the result is kept as the result of the batch
ReceiveBatchData(r) ==
  /\ deployment = "tab"
  /\ req[r].pc = "done"
  /\ req[r].batchId \in console.processingBatches
  /\ console' = [console EXCEPT
                   !.batchResults = MapPut(@, req[r].batchId, req[r].result),
                   !.processingBatches = @ \ {req[r].batchId}]
  /\ req' = [req EXCEPT ![r] = IdleReq]
  /\ UNCHANGED <<deployment, now, weightCache, connectedTabs, dropped, broadcast, event, agent>>

\* fetchBatchWeight when runtime.sendMessage is rejected (the background
\* script went away with its handler): catch and finally, no result is kept
FetchRejected(r) ==
  /\ deployment = "tab"
  /\ req[r].pc # "idle"
  /\ req[r].batchId \in console.processingBatches
  /\ console' = [console EXCEPT !.processingBatches = @ \ {req[r].batchId}]
  /\ req' = [req EXCEPT ![r] = IdleReq]
  /\ UNCHANGED <<deployment, now, weightCache, connectedTabs, dropped, broadcast, event, agent>>

\* pickingConsole.js clearCache: 'clearCache' is handled by the background
\* script, then the results of the batches are forgotten
ConsoleClearCache ==
  /\ deployment = "tab"
  /\ weightCache' = EmptyMap
  /\ dropped' = [k \in DOMAIN dropped \cup DOMAIN weightCache |->
                   IF k \in DOMAIN weightCache THEN weightCache[k].timestamp ELSE dropped[k]]
  /\ console' = [console EXCEPT !.batchResults = EmptyMap]
  /\ UNCHANGED <<deployment, now, connectedTabs, req, broadcast, event, agent>>

\* The registry events are taken in the tab deployment, where the registry
\* gates the requests; in the direct deployment it only feeds the badge.
Connect ==
  deployment = "tab" /\ UNCHANGED event /\ \E v \in Visits : ContentScriptReady(v[1], v[2])
Remove ==
  deployment = "tab" /\ UNCHANGED event /\ \E tabId \in Tabs : TabRemoved(tabId)
Update ==
  deployment = "tab" /\ UNCHANGED event /\ \E v \in Visits : TabUpdated(v[1], v[2])

Next ==
  \/ Tick
  \/ ClearCache
  \/ Connect
  \/ Remove
  \/ Update
  \/ \E r \in Reqs : StartTab(r)
  \/ \E r \in Reqs : RodeoTabReply(r, RodeoPages)
  \/ \E r \in Reqs : WeightTabReply(r)
  \/ \E r \in Reqs : StartDirect(r)
  \/ \E r \in Reqs : RodeoFetchReply(r, RodeoPages)
  \/ \E r \in Reqs : WeightFetchReply(r)
  \/ \E r \in Reqs : Respond(r)

Spec == Init /\ [][Next]_vars

\* The fan-out over a batch of six distinct items, the clock standing still
NextWide ==
  \/ Connect
  \/ \E r \in Reqs : StartTab(r)
  \/ \E r \in Reqs : RodeoTabReply(r, WidePages)
  \/ \E r \in Reqs : WeightTabReply(r)
  \/ \E r \in Reqs : StartDirect(r)
  \/ \E r \in Reqs : RodeoFetchReply(r, WidePages)
  \/ \E r \in Reqs : WeightFetchReply(r)
  \/ \E r \in Reqs : Respond(r)

SpecWide == Init /\ [][NextWide]_vars

\* The aggregation over one batch whose page lists its units in different
\* orders, the cache being cleared in between
NextReordered ==
  \/ ClearCache
  \/ Connect
  \/ \E r \in Reqs : StartTab(r)
  \/ \E r \in Reqs : RodeoTabReply(r, ReorderedPages)
  \/ \E r \in Reqs : WeightTabReply(r)
  \/ \E r \in Reqs : StartDirect(r)
  \/ \E r \in Reqs : RodeoFetchReply(r, ReorderedPages)
  \/ \E r \in Reqs : WeightFetchReply(r)
  \/ \E r \in Reqs : Respond(r)

SpecReordered == Init /\ [][NextReordered]_vars

\* The requests on batches that hold several units of one item
NextRepeated ==
  \/ ClearCache
  \/ Connect
  \/ \E r \in Reqs : StartTab(r)
  \/ \E r \in Reqs : RodeoTabReply(r, RepeatedPages)
  \/ \E r \in Reqs : WeightTabReply(r)
  \/ \E r \in Reqs : StartDirect(r)
  \/ \E r \in Reqs : RodeoFetchReply(r, RepeatedPages)
  \/ \E r \in Reqs : WeightFetchReply(r)
  \/ \E r \in Reqs : Respond(r)

SpecRepeated == Init /\ [][NextRepeated]_vars

\* The requests with message delivery that does not stall: the browser
\* delivers or rejects every message sent to a tab, the event loop of a
\* content script runs the statements and timers that are due, every fetch
\* settles, and a reply that has arrived is taken up by the waiting call
NextLive ==
  \/ Connect
  \/ Remove
  \/ \E r \in Reqs : StartTab(r)
  \/ \E a \in Agents : AgentHandle(a)
  \/ \E a \in Agents : AgentStep(a)
  \/ \E a \in Agents : AgentMiss(a)
  \/ \E a \in Agents : AgentLoad(a)
  \/ \E a \in Agents : DataReady(a)
  \/ \E r \in Reqs : RodeoAgentReply(r)
  \/ \E r \in Reqs : WeightAgentReply(r)
  \/ \E r \in Reqs : StartDirect(r)
  \/ \E r \in Reqs : RodeoFetchReply(r, RodeoPages)
  \/ \E r \in Reqs : WeightFetchReply(r)
  \/ \E r \in Reqs : Respond(r)

\* a reply is due to the call that request r awaits
RodeoReplyDue(r) ==
  deployment = "tab" /\ req[r].pc = "awaitRodeo" /\ agent["rodeo"].reply # NoReply
WeightReplyDue(r) ==
  /\ deployment = "tab" /\ req[r].pc = "awaitWeights"
  /\ agent["fcresearch"].reply # NoReply /\ Outstanding(req[r]) # {}
WeightFetchDue(r) ==
  deployment = "direct" /\ req[r].pc = "awaitWeights" /\ Outstanding(req[r]) # {}

\* weak fairness of the three actions that take a reply up, with the
\* condition under which each is enabled written out: a reply that stays
\* due is taken up
Delivery ==
  /\ \A a \in Agents : WF_vars(AgentHandle(a) \/ AgentMiss(a))
  /\ \A a \in Agents : WF_vars(AgentStep(a))
  /\ \A r \in Reqs : WF_vars(RodeoFetchReply(r, RodeoPages))
  /\ \A r \in Reqs : WF_vars(Respond(r))
  /\ \A r \in Reqs : []<>(~RodeoReplyDue(r)) \/ []<><<RodeoAgentReply(r)>>_vars
  /\ \A r \in Reqs : []<>(~WeightReplyDue(r)) \/ []<><<WeightAgentReply(r)>>_vars
  /\ \A r \in Reqs : []<>(~WeightFetchDue(r)) \/ []<><<WeightFetchReply(r)>>_vars

SpecLive == Init /\ [][NextLive]_vars /\ Delivery

\* Two fetchBatchData requests in the tab deployment: the listener starts
\* handleFetchBatchData for each message as it comes, and the calls await
\* their tabs side by side
NextConcurrent ==
  \/ Connect
  \/ \E r \in Callers : StartTab(r)
  \/ \E r \in Callers : RodeoTabReply(r, AgentRodeoPages)
  \/ \E r \in Callers : WeightTabReply(r)
  \/ \E r \in Callers : Respond(r)

SpecConcurrent == Init /\ [][NextConcurrent]_vars

\* The tab deployment with its two agents, where a tab can also be loaded
\* again before the location assigned to it has loaded
NextRestart ==
  \/ Connect
  \/ \E r \in Reqs : StartTab(r)
  \/ \E a \in Agents : AgentHandle(a)
  \/ \E a \in Agents : AgentStep(a)
  \/ \E a \in Agents : AgentMiss(a)
  \/ \E a \in Agents : AgentLoad(a)
  \/ \E a \in Agents : AgentRestart(a)
  \/ \E a \in Agents : DataReady(a)
  \/ \E r \in Reqs : RodeoAgentReply(r)
  \/ \E r \in Reqs : WeightAgentReply(r)
  \/ \E r \in Reqs : Respond(r)

SpecRestart == Init /\ [][NextRestart]_vars

\* The picking console with its buttons: a batch can be fetched while the
\* fetch of another, or of the same, is under way
NextClicks ==
  \/ Connect
  \/ CheckConnectionStatus
  \/ \E r \in Callers : \E batchId \in Rows : FetchBatchWeight(r, batchId)
  \/ \E r \in Callers : RodeoTabReply(r, AgentRodeoPages)
  \/ \E r \in Callers : WeightTabReply(r)
  \/ \E r \in Callers : ReceiveBatchData(r)
  \/ \E r \in Callers : FetchRejected(r)
  \/ ConsoleClearCache

SpecClicks == Init /\ [][NextClicks]_vars

\* The registry on its own, in both deployments: any tab can announce
\* itself from, or move to, any location, and any tab can be closed
Announce ==
  \E tabId \in Tabs : \E url \in Urls :
    /\ ContentScriptReady(tabId, url)
    /\ event' = [kind |-> "ready", tabId |-> tabId, url |-> url]
Close ==
  \E tabId \in Tabs :
    /\ TabRemoved(tabId)
    /\ event' = [kind |-> "removed", tabId |-> tabId, url |-> {}]
Navigate ==
  \E tabId \in Tabs : \E url \in Urls :
    /\ TabUpdated(tabId, url)
    /\ event' = [kind |-> "updated", tabId |-> tabId, url |-> url]

NextRegistry ==
  \/ Announce
  \/ Close
  \/ Navigate

SpecRegistry == Init /\ [][NextRegistry]_vars

\* The tab deployment with its two agents: the replies to the background
\* script are those the content scripts give
NextAgent ==
  \/ Wait
  \/ Connect
  \/ \E r \in Reqs : StartTab(r)
  \/ \E a \in Agents : AgentHandle(a)
  \/ \E a \in Agents : AgentStep(a)
  \/ \E a \in Agents : AgentMiss(a)
  \/ \E a \in Agents : AgentLoad(a)
  \/ \E a \in Agents : AgentReload(a)
  \/ \E a \in Agents : DataReady(a)
  \/ \E r \in Reqs : RodeoAgentReply(r)
  \/ \E r \in Reqs : WeightAgentReply(r)
  \/ \E r \in Reqs : Respond(r)

SpecAgent == Init /\ [][NextAgent]_vars

\* The tab deployment as the picking console drives it: the requests are
\* those of fetchBatchWeight
NextConsole ==
  \/ Connect
  \/ Remove
  \/ CheckConnectionStatus
  \/ ConnectionStatusUpdate
  \/ \E r \in Reqs : \E batchId \in Batches : FetchBatchWeight(r, batchId)
  \/ \E r \in Reqs : RodeoTabReply(r, RodeoPages)
  \/ \E r \in Reqs : WeightTabReply(r)
  \/ \E r \in Reqs : ReceiveBatchData(r)
  \/ ConsoleClearCache

SpecConsole == Init /\ [][NextConsole]_vars

\* The picking console with its timer: setInterval runs
\* checkConnectionStatus every five seconds, and a connectionStatusUpdate
\* that was sent is delivered
SpecConsoleLive ==
  /\ Init
  /\ [][NextConsole]_vars
  /\ WF_vars(CheckConnectionStatus)
  /\ WF_vars(ConnectionStatusUpdate)

----------------------------------------------------------------------------
\* Properties

\* the positions of uniqueFNSKUs whose cache lookup has been made
LookedUp(q) == {i \in 1..Len(q.weightResults) : q.weightResults[i].st # "todo"}

KeyAt(q, i) == CacheKey(q.warehouseId, q.uniqueFNSKUs[i])

\* C1: a lookup of a key whose entry (weight v, stored at time t) is in the
\* cache returns v and sends no request when now - t is below 30 minutes,
\* and is a Miss (the request is sent) when now - t is 30 minutes or more.
C1_LookupWithinTTL ==
  [][\A r \in Reqs : \A i \in LookedUp(req'[r]) \ LookedUp(req[r]) :
       LET q == req'[r]
           key == KeyAt(q, i)
       IN key \in DOMAIN weightCache' =>
            IF now' - weightCache'[key].timestamp < 30 * 60 * 1000
            THEN /\ q.weightResults[i].st = "done"
                 /\ q.weightResults[i].weight = weightCache'[key].weight
                 /\ q.uniqueFNSKUs[i] \notin Range(q.sent)
            ELSE /\ q.weightResults[i].st = "pending"
                 /\ q.uniqueFNSKUs[i] \in Range(q.sent)]_vars

\* one request holds a weight served from an entry stored earlier and an
\* outstanding call for a key whose entry has reached the cache duration
C1_Witness ==
  \E r \in Reqs : \E i, j \in 1..Len(req[r].weightResults) :
    LET q == req[r]
    IN /\ q.weightResults[i].fromCache
       /\ KeyAt(q, i) \in DOMAIN weightCache
       /\ now - weightCache[KeyAt(q, i)].timestamp > 0
       /\ now - weightCache[KeyAt(q, i)].timestamp < CACHE_DURATION
       /\ q.weightResults[j].st = "pending"
       /\ KeyAt(q, j) \in DOMAIN weightCache
       /\ now - weightCache[KeyAt(q, j)].timestamp >= CACHE_DURATION

\* C2: once clearCache has been handled, a lookup of a key whose entry was
\* put before the clear (and that has not been put again since) is a Miss.
C2_MissAfterClear ==
  [][\A r \in Reqs : \A i \in LookedUp(req'[r]) \ LookedUp(req[r]) :
       KeyAt(req'[r], i) \in DOMAIN dropped' =>
         /\ req'[r].weightResults[i].st = "pending"
         /\ ~req'[r].weightResults[i].fromCache]_vars

\* a call is outstanding for a key whose entry the clear removed while the
\* entry was still young enough to be served
C2_Witness ==
  \E r \in Reqs : \E i \in 1..Len(req[r].weightResults) :
    /\ req[r].weightResults[i].st = "pending"
    /\ KeyAt(req[r], i) \in DOMAIN dropped
    /\ now - dropped[KeyAt(req[r], i)] < CACHE_DURATION

\* the identifier list the resolver handed to handleFetchBatchData
Original(q) == q.rodeoResult.fnskus

\* the identifier has a resolved weight
Resolved(q, f) ==
  \E i \in 1..Len(q.uniqueFNSKUs) :
    q.uniqueFNSKUs[i] = f /\ q.weightResults[i].st = "done" /\ q.weightResults[i].weight # NoWeight

ResolvedWeight(q, f) ==
  q.weightResults[CHOOSE i \in 1..Len(q.uniqueFNSKUs) : q.uniqueFNSKUs[i] = f].weight

\* the positions of the original list whose identifier has a resolved weight
Found(q) == {p \in 1..Len(Original(q)) : Resolved(q, Original(q)[p])}

RECURSIVE SumOverPositions(_, _)
SumOverPositions(q, P) ==
  IF P = {} THEN 0
  ELSE LET p == CHOOSE x \in P : TRUE
       IN ResolvedWeight(q, Original(q)[p]) + SumOverPositions(q, P \ {p})

\* h hundredths is n / d thousandths rounded to 2 decimals, a tie going up
IsHalfUp(h, n, d) ==
  /\ 20 * d * h <= 2 * n + 10 * d
  /\ 2 * n + 10 * d < 20 * d * (h + 1)

\* C3: in every BatchResult totalItems is the length of the original
\* identifier list (duplicates counted), itemsWithWeight the number of its
\* positions whose identifier has a resolved weight, and uniqueSKUs the
\* number of distinct identifiers.
C3_Counts ==
  \A r \in Reqs :
    req[r].result.kind = "BatchResult" =>
      /\ req[r].result.totalItems = Len(Original(req[r]))
      /\ req[r].result.itemsWithWeight = Cardinality(Found(req[r]))
      /\ req[r].result.uniqueSKUs = Cardinality(Range(Original(req[r])))

\* a result over a list with a repeated identifier of which one identifier
\* stayed unresolved
C3_Witness ==
  \E r \in Reqs :
    /\ req[r].result.kind = "BatchResult"
    /\ Len(Original(req[r])) = 3
    /\ req[r].result.totalItems = 3
    /\ req[r].result.itemsWithWeight = 2
    /\ req[r].result.uniqueSKUs = 2

C5_OneEntryPerOccurrence ==
  \A r \in Reqs :
    (req[r].rodeoResult.defined /\ req[r].rodeoResult.error = "none") =>
      Original(req[r]) = IF deployment = "tab" THEN CollectFNSKUs(req[r].page)
                         ELSE parseRodeoFNSKUs(req[r].page)

\* C6: when the resolver yields an error or an empty list, the request ends
\* with the resolver error or the no-identifiers error, no request went to
\* the weight source and the aggregation was not reached.
C6_ResolverShortCircuit ==
  \A r \in Reqs :
    LET q == req[r]
    IN (q.rodeoResult.defined /\ (q.rodeoResult.error # "none" \/ Original(q) = <<>>)) =>
         /\ q.pc = "done"
         /\ q.result.kind = "Error"
         /\ q.result.error = IF q.rodeoResult.error # "none" THEN "rodeoError" ELSE "noFNSKUs"
         /\ q.sent = <<>>
         /\ LookedUp(q) = {}
         /\ ~q.aggregated

\* a page was read and none of its cells passed the validation
C6_Witness ==
  \E r \in Reqs :
    /\ req[r].rodeoResult.defined
    /\ req[r].page # NoPage
    /\ req[r].page.cells # <<>>
    /\ Original(req[r]) = <<>>
    /\ req[r].result.error = "noFNSKUs"

\* C7: when the identifier list is not empty and no identifier resolves to
\* a weight, the request returns the no-weights error and no BatchResult.
C7_NoWeightsResolved ==
  \A r \in Reqs :
    LET q == req[r]
    IN (q.pc = "done" /\ Original(q) # <<>> /\ Found(q) = {}) =>
         /\ q.result.kind = "Error"
         /\ q.result.error = "noWeights"

\* two identifiers were requested and neither resolved
C7_Witness ==
  \E r \in Reqs :
    /\ req[r].pc = "done"
    /\ Len(req[r].sent) >= 2
    /\ Found(req[r]) = {}
    /\ req[r].result.error = "noWeights"

\* C8: a failed extraction leaves only its own identifier unresolved: when
\* the request is over every identifier of the list has been dealt with
\* (served from the cache or requested), and every identifier that resolved
\* is in the weight map and counted in the BatchResult.
C8_FailureIsPerItem ==
  \A r \in Reqs :
    LET q == req[r]
    IN (q.pc = "done" /\ q.uniqueFNSKUs # <<>>) =>
         /\ \A i \in 1..Len(q.uniqueFNSKUs) :
              /\ q.weightResults[i].st = "done"
              /\ q.weightResults[i].fromCache \/ q.uniqueFNSKUs[i] \in Range(q.sent)
              /\ q.weightResults[i].weight # NoWeight =>
                   /\ q.uniqueFNSKUs[i] \in DOMAIN q.weightMap
                   /\ q.weightMap[q.uniqueFNSKUs[i]] = q.weightResults[i].weight
         /\ Found(q) # {} =>
              /\ q.result.kind = "BatchResult"
              /\ q.result.itemsWithWeight = Cardinality(Found(q))

\* a call failed, a later call of the same request was still made and
\* resolved, and the request returned a BatchResult
C8_Witness ==
  \E r \in Reqs : \E i, j \in 1..Len(req[r].weightResults) :
    /\ req[r].pc = "done"
    /\ i < j
    /\ req[r].weightResults[i].error # "none"
    /\ ~req[r].weightResults[j].fromCache
    /\ req[r].weightResults[j].weight # NoWeight
    /\ req[r].result.kind = "BatchResult"

C10_RequestOnlyOnMiss ==
  [][\A r \in Reqs :
       LET q == req'[r]
           newlySent == {q.sent[n] : n \in (Len(req[r].sent) + 1)..Len(q.sent)}
       IN /\ \A f \in newlySent :
               ~CacheHit(weightCache', CacheKey(q.warehouseId, f), now')
          /\ \A i \in LookedUp(q) \ LookedUp(req[r]) :
               CacheHit(weightCache', KeyAt(q, i), now') =>
                 /\ q.weightResults[i] = CachedResult(weightCache'[KeyAt(q, i)].weight)
                 /\ q.uniqueFNSKUs[i] \notin newlySent]_vars

\* one request in which an identifier was served from the cache and
\* another one had to be requested
C10_Witness ==
  \E r \in Reqs : \E i, j \in 1..Len(req[r].weightResults) :
    /\ req[r].weightResults[i].fromCache
    /\ req[r].uniqueFNSKUs[i] \notin Range(req[r].sent)
    /\ ~req[r].weightResults[j].fromCache
    /\ req[r].uniqueFNSKUs[j] \in Range(req[r].sent)

\* C11: within one request no identifier is requested from the weight
\* source more than once, however often it occurs in the identifier list.
C11_OneCallPerIdentifier ==
  \A r \in Reqs :
    \A m, n \in 1..Len(req[r].sent) : m # n => req[r].sent[m] # req[r].sent[n]

\* the list holds an identifier twice, every call has come back, and the
\* identifier was requested (it was not served from the cache)
C11_Witness ==
  \E r \in Reqs :
    /\ req[r].pc = "done"
    /\ req[r].aggregated
    /\ \E m, n \in 1..Len(Original(req[r])) :
         /\ m # n
         /\ Original(req[r])[m] = Original(req[r])[n]
         /\ Original(req[r])[m] \in Range(req[r].sent)

\* a weight of more than 0 and less than 1000 pounds
InRange(w) == 0 < w /\ w < 1000 * 1000

\* C12: every weight stored in the weight cache, and every weight that
\* enters the aggregation, is greater than 0 and less than 1000 pounds.
C12_WeightsInRange ==
  /\ \A key \in DOMAIN weightCache : InRange(weightCache[key].weight)
  /\ \A r \in Reqs : \A f \in DOMAIN req[r].weightMap : InRange(req[r].weightMap[f])

\* C13: every identifier that identifier extraction hands to the
\* orchestrator, in either deployment, is alphanumeric and at least 10
\* characters long.
C13_IdentifiersValidated ==
  \A r \in Reqs : \A n \in 1..Len(Original(req[r])) :
    /\ MatchesUpperAlnum(Original(req[r])[n])
    /\ Len(Original(req[r])[n]) >= 10

\* the cells of the table that pass the validation, and the matches of the
\* fallback pattern over the page text
ValidCells(page) == {t \in Range(page.cells) : MatchesBroad(t)}
TextMatches(page) == {t \in Range(page.cells \o page.text) : MatchesStrict(t)}

\* the "weight" rows whose value cell holds a number
NumberRows(page) ==
  {n \in 1..Len(page.rows) :
     page.rows[n].number # NoWeight \/ page.rows[n].withUnit # NoWeight}

\* C14: an extraction returns the result of the first strategy that matches
\* and nothing of a later one: the identifiers are those of the table when
\* the table yields any, else those of the pattern over the page text; the
\* weight is that of the first table row with a number when there is one,
\* else that of the pattern over the page text.
C14_FirstStrategyWins ==
  /\ agent["rodeo"].last.kind = "reply" =>
       LET page == agent["rodeo"].last.page
       IN Range(agent["rodeo"].last.fnskus) =
            IF ValidCells(page) # {} THEN ValidCells(page) ELSE TextMatches(page)
  /\ agent["fcresearch"].last.kind = "reply" =>
       LET page == agent["fcresearch"].last.page
       IN agent["fcresearch"].last.weight =
            IF NumberRows(page) # {}
            THEN LET n == MinOf(NumberRows(page))
                 IN IF page.rows[n].withUnit # NoWeight THEN page.rows[n].withUnit
                    ELSE page.rows[n].number
            ELSE page.textMatch

\* the Rodeo page has X00000000B in the table and X00000000A in its text, the
\* FC Research page 1.0 in the table and 2 lbs in its text: the extractions
\* are X00000000B and 1.0
C14_Witness ==
  /\ agent["rodeo"].last.kind = "reply"
  /\ agent["rodeo"].last.page = [cells |-> <<"X00000000B">>, text |-> <<"X00000000A">>]
  /\ agent["rodeo"].last.fnskus = <<"X00000000B">>
  /\ agent["fcresearch"].last.kind = "reply"
  /\ agent["fcresearch"].last.page = FCResearchPage("X00000000B")
  /\ agent["fcresearch"].last.page.textMatch = 2000
  /\ agent["fcresearch"].last.weight = 1000

\* the name under which a role is reported missing
DisplayName(role) ==
  CASE role = "pickingConsole" -> "Picking Console"
    [] role = "rodeo" -> "Rodeo"
    [] role = "fcresearch" -> "FC Research"

Disconnected(tabs) == {role \in Roles : tabs[role] = NoTab}

\* C15: a role is bound to a tab, or re-bound to another tab, only by the
\* readiness announcement of that tab from a location that matches the
\* role's pattern; an announcement from a location that matches no pattern
\* leaves every role as it was.
C15_BoundOnlyByAnnouncement ==
  [][/\ \A role \in Roles :
          (connectedTabs'[role] # NoTab /\ connectedTabs'[role] # connectedTabs[role]) =>
            /\ event'.kind = "ready"
            /\ Marker(role) \in event'.url
            /\ connectedTabs'[role] = event'.tabId
     /\ (event'.kind = "ready" /\ event'.url = {}) => connectedTabs' = connectedTabs]_vars

\* an announcement from a location that matches two patterns bound its tab
\* to the first of the two roles, the other role staying with another tab
C15_Witness ==
  /\ event.kind = "ready"
  /\ event.url = {"rodeo", "fcresearch"}
  /\ connectedTabs["rodeo"] = event.tabId
  /\ connectedTabs["fcresearch"] \notin {NoTab, event.tabId}

\* C16: when a tab is removed, every role registered to it is Disconnected
\* afterwards, and when a tab moves to a new location, every role
\* registered to it whose pattern the location does not match is
\* Disconnected afterwards; every other role keeps its state.
C16_DisconnectOnLoss ==
  [][/\ event'.kind = "removed" =>
          \A role \in Roles :
            connectedTabs'[role] = IF connectedTabs[role] = event'.tabId THEN NoTab
                                   ELSE connectedTabs[role]
     /\ event'.kind = "updated" =>
          \A role \in Roles :
            connectedTabs'[role] =
              IF connectedTabs[role] = event'.tabId /\ Marker(role) \notin event'.url
              THEN NoTab ELSE connectedTabs[role]]_vars

\* the removal of the Rodeo tab changed the registry (the status went out)
\* and left the other two roles connected
C16_Witness ==
  /\ event.kind = "removed"
  /\ broadcast.type = "connectionStatusUpdate"
  /\ connectedTabs["rodeo"] = NoTab
  /\ connectedTabs["pickingConsole"] \notin {NoTab, event.tabId}
  /\ connectedTabs["fcresearch"] \notin {NoTab, event.tabId}

\* C17: areAllTabsConnected is true exactly when every role is Connected,
\* getMissingTabs names exactly the Disconnected roles, and so
\* areAllTabsConnected holds if and only if getMissingTabs is empty.
C17_RegistryQueries ==
  LET missing == getMissingTabs(connectedTabs)
  IN /\ areAllTabsConnected(connectedTabs) <=> Disconnected(connectedTabs) = {}
     /\ Range(missing) = {DisplayName(role) : role \in Disconnected(connectedTabs)}
     /\ Len(missing) = Cardinality(Disconnected(connectedTabs))
     /\ areAllTabsConnected(connectedTabs) <=> missing = <<>>

\* the picking console is connected and the other two roles are not
C17_Witness ==
  /\ connectedTabs["pickingConsole"] # NoTab
  /\ Disconnected(connectedTabs) = {"rodeo", "fcresearch"}
  /\ getMissingTabs(connectedTabs) = <<"Rodeo", "FC Research">>

\* the status message carries the values of the registry
CarriesStatus(message, tabs) ==
  /\ message.type = "connectionStatusUpdate"
  /\ message.allConnected = (Disconnected(tabs) = {})
  /\ Range(message.missing) = {DisplayName(role) : role \in Disconnected(tabs)}

C19_GateOnMissingTabs ==
  [][\A r \in Reqs :
       (/\ deployment = "tab"
        /\ req[r].pc = "idle"
        /\ req'[r].pc # "idle"
        /\ Disconnected(connectedTabs) # {}) =>
         /\ req'[r].pc = "done"
         /\ req'[r].result.kind = "Error"
         /\ req'[r].result.error = "missingTabs"
         /\ Range(req'[r].result.missingTabs) =
              {DisplayName(role) : role \in Disconnected(connectedTabs)}
         /\ req'[r].rodeoResult = NoRodeoResult
         /\ req'[r].sent = <<>>
         /\ weightCache' = weightCache]_vars

\* a request was turned away for one missing tab while the cache held the
\* weights of an earlier request
C19_Witness ==
  \E r \in Reqs :
    /\ req[r].pc = "done"
    /\ req[r].result.error = "missingTabs"
    /\ Len(req[r].result.missingTabs) = 1
    /\ weightCache # EmptyMap

\* C20: an agent that handles a navigateAndExtract message while its
\* location equals the url of the message replies to that message with the
\* extraction from its document, writes no pending request and starts no
\* navigation.
C20_ExtractInPlace ==
  [][\A a \in Agents : \A r \in Reqs : \A message \in InFlight(a, req[r]) :
       (/\ agent[a].reply = NoReply
        /\ agent'[a].reply # NoReply
        /\ agent'[a].reply # RejectedReply
        /\ agent[a].href = message.url) =>
         /\ agent'[a].reply.error = "none"
         /\ agent'[a].reply.page = agent[a].document
         /\ a = "rodeo" =>
              agent'[a].reply.fnskus = extractFNSKUsFromPage(agent[a].document)
         /\ a = "fcresearch" =>
              agent'[a].reply.weight = extractWeightFromPage(agent[a].document)
         /\ agent'[a].sessionStorage = agent[a].sessionStorage
         /\ agent'[a].loading = agent[a].loading
         /\ agent'[a].href = agent[a].href]_vars

\* the FC Research agent is on the result page of the item asked for and
\* has replied with its weight; nothing is pending and nothing is loading
C20_Witness ==
  \E r \in Reqs : \E message \in InFlight("fcresearch", req[r]) :
    /\ agent["fcresearch"].href = message.url
    /\ agent["fcresearch"].reply.kind = "reply"
    /\ agent["fcresearch"].reply.error = "none"
    /\ agent["fcresearch"].reply.weight # NoWeight
    /\ agent["fcresearch"].sessionStorage = EmptyMap
    /\ agent["fcresearch"].loading = NoUrl

\* the step assigns window.location.href in agent a
Navigates(a) ==
  /\ agent'[a].loading # NoUrl
  /\ \/ agent[a].pc = "idle" /\ agent'[a].pc = "assigned"
     \/ agent[a].pc = "stored" /\ agent'[a].pc = "timer"

\* C21: an agent whose location differs from the url of the message stores
\* the pending request first, is then sent to the url, and replies with the
\* navigation error last: window.location.href is never assigned before
\* the pending request of the message is in sessionStorage.
C21_TicketBeforeNavigation ==
  [][\A a \in Agents :
       /\ Navigates(a) =>
            /\ HasTicket(agent[a], a)
            /\ agent[a].sessionStorage[PendingKey(a)].payload = agent'[a].handling.payload
            /\ agent[a].pc = "stored"
       /\ (agent[a].reply = NoReply /\ agent'[a].reply = NavigationReply) =>
            /\ HasTicket(agent[a], a)
            /\ agent[a].loading = agent[a].handling.url]_vars

\* the step is a run of checkPendingExtract / checkPendingWeight in agent a
Initialises(a) == AgentLoad(a) \/ AgentReload(a)

\* the step sends a rodeoDataReady / fcresearchDataReady message from agent a
Delivers(a) == Len(agent'[a].dataReady) > Len(agent[a].dataReady)

\* C22: a pending request is served at most once: every data-ready message
\* is sent by a step that finds the pending request and removes it, no
\* pending request is left after a page initialisation, and an
\* initialisation that finds none sends nothing.
C22_TicketConsumedOnce ==
  [][\A a \in Agents :
       /\ Delivers(a) =>
            /\ HasTicket(agent[a], a)
            /\ ~HasTicket(agent'[a], a)
            /\ Len(agent'[a].dataReady) = Len(agent[a].dataReady) + 1
       /\ Initialises(a) =>
            /\ ~HasTicket(agent'[a], a)
            /\ ~HasTicket(agent[a], a) => agent'[a].dataReady = agent[a].dataReady]_vars

\* the FC Research agent has served a pending request, and its page was
\* initialised once more since: that run found nothing and sent nothing
C22_Witness ==
  /\ agent["fcresearch"].dataReady # <<>>
  /\ agent["fcresearch"].last = agent["fcresearch"].dataReady[1].data
  /\ agent["fcresearch"].resume.outcome = "nothing"
  /\ ~HasTicket(agent["fcresearch"], "fcresearch")

\* the age of the pending request that agent a has stored
TicketAge(a) == now - agent[a].sessionStorage[PendingKey(a)].timestamp

\* C23: a page initialisation that finds a pending request of an age of 30
\* seconds or more removes it and sends no data-ready message for it; one
\* that finds a younger pending request removes it and sends the extraction
\* from the page; so only a request younger than 30 seconds is served.
C23_ExpiredTicketDropped ==
  [][\A a \in Agents :
       /\ (Initialises(a) /\ HasTicket(agent[a], a)) =>
            /\ ~HasTicket(agent'[a], a)
            /\ IF TicketAge(a) >= 30000
               THEN /\ agent'[a].dataReady = agent[a].dataReady
                    /\ agent'[a].last = agent[a].last
               ELSE /\ Delivers(a)
                    /\ agent'[a].dataReady[Len(agent'[a].dataReady)].data =
                         Extraction(a, agent'[a].document)
       /\ Delivers(a) => TicketAge(a) < 30000]_vars

\* the FC Research page was initialised when the pending request was
\* exactly 30 seconds old: the request is gone and nothing was sent
C23_Witness ==
  /\ agent["fcresearch"].resume = [outcome |-> "expired", age |-> 30000]
  /\ ~HasTicket(agent["fcresearch"], "fcresearch")
  /\ agent["fcresearch"].dataReady = <<>>
  /\ agent["fcresearch"].last = NoReply

\* the step is the sessionStorage.setItem of handleNavigateAndExtract
Stores(a) ==
  \/ agent[a].pc = "assigned" /\ agent'[a].pc = "timer"
  \/ agent[a].pc = "idle" /\ agent'[a].pc = "stored"

\* C24: an agent never has more than one pending request stored: when
\* handleNavigateAndExtract stores the request of a new navigation, that
\* request is the only one in the agent's sessionStorage afterwards,
\* whatever was stored before.
C24_OneTicketPerAgent ==
  [][\A a \in Agents :
       /\ Cardinality(DOMAIN agent'[a].sessionStorage) <= 1
       /\ Stores(a) =>
            /\ DOMAIN agent'[a].sessionStorage = {PendingKey(a)}
            /\ agent'[a].sessionStorage[PendingKey(a)] =
                 PendingRequest(agent'[a].handling, now)]_vars

\* the FC Research agent was sent to the page of the first item and, before
\* any page was initialised, to that of the second: the pending request of
\* the second item is the one stored
C24_Witness ==
  \E r \in Reqs :
    /\ Len(req[r].uniqueFNSKUs) = 2
    /\ req[r].weightResults[1].error = "navigation"
    /\ agent["fcresearch"].resume = NoResume
    /\ HasTicket(agent["fcresearch"], "fcresearch")
    /\ agent["fcresearch"].sessionStorage["pcs_pending_weight"].payload = req[r].uniqueFNSKUs[2]

\* C25: the navigation error of the Rodeo tab is not kept by the picking
\* console as the result of the batch: the batch stays among those that
\* fetchAllBatchWeights fetches.
C25_TransientNotFinal ==
  \A b \in Batches :
    b \in DOMAIN console.batchResults => console.batchResults[b].message # "navigation"

\* the number of navigateAndExtract messages for identifier f that the
\* request has sent to the FC Research tab
TimesSent(q, f) == Cardinality({n \in 1..Len(q.sent) : q.sent[n] = f})

\* C26: within one request the background script sends at most one
\* navigateAndExtract to the Rodeo tab and at most one per distinct
\* identifier to the FC Research tab; a call answered with the navigation
\* error is over with that error and is not made again.
C26_NoAutoRetry ==
  \A r \in Reqs :
    LET q == req[r]
    IN /\ q.rodeoMessages <= 1
       /\ \A f \in Range(q.sent) : TimesSent(q, f) = 1
       /\ q.rodeoResult.error = "navigation" =>
            /\ q.pc = "done"
            /\ q.result.error = "rodeoError"
            /\ q.sent = <<>>
       /\ \A i \in 1..Len(q.weightResults) :
            q.weightResults[i].error = "navigation" =>
              /\ q.weightResults[i].st = "done"
              /\ TimesSent(q, q.uniqueFNSKUs[i]) = 1

\* the FC Research agent answered the calls for both identifiers of a
\* request with the navigation error; the request is over, one message
\* went to the Rodeo tab and one for each identifier to the FC Research tab
C26_Witness ==
  \E r \in Reqs :
    /\ req[r].pc = "done"
    /\ req[r].rodeoMessages = 1
    /\ Len(req[r].uniqueFNSKUs) = 2
    /\ Len(req[r].sent) = 2
    /\ req[r].weightResults[1].error = "navigation"
    /\ req[r].weightResults[2].error = "navigation"
    /\ agent["fcresearch"].reply = NoReply

\* C27: in the direct deployment a target that is unreachable or answers
\* with a non-success status is followed by the request of the next
\* candidate target: the step in which the request for the Rodeo search
\* page fails leaves the batch request waiting for a target, and the
\* failure is returned only when the candidates are used up. (The claim
\* speaks of a list of candidates that holds more than the one target.)
C27_NextCandidateOnFailure ==
  [][\A r \in Reqs :
       (/\ deployment = "direct"
        /\ req[r].pc = "awaitRodeo"
        /\ req'[r].rodeoResult.error = "thrown")
       => req'[r].pc = "awaitRodeo"]_vars

\* the orders in which the entries of a list can stand
Reorderings(s) ==
  {[i \in 1..Len(s) |-> s[f[i]]] :
     f \in {g \in [1..Len(s) -> 1..Len(s)] : \A i, j \in 1..Len(s) : g[i] = g[j] => i = j}}

\* C28: the aggregation does not depend on the order of the identifier
\* list: the statistics of a finished request are those that any
\* permutation of its list gives with the same weights.
C28_OrderIndependent ==
  \A r \in Reqs :
    req[r].result.kind = "BatchResult" =>
      \A p \in Reorderings(req[r].fnskus) :
        LET other == Aggregate(p, Dedupe(p), req[r].weightMap)
        IN /\ other.totalItems = req[r].result.totalItems
           /\ other.itemsWithWeight = req[r].result.itemsWithWeight
           /\ other.uniqueSKUs = req[r].result.uniqueSKUs
           /\ other.totalWeight = req[r].result.totalWeight
           /\ other.averageWeight = req[r].result.averageWeight
           /\ other.minWeight = req[r].result.minWeight
           /\ other.maxWeight = req[r].result.maxWeight

\* the calls of request q that this step answers with a weight
Extracted(q, q2) ==
  {i \in Outstanding(q) : /\ i <= Len(q2.weightResults)
                          /\ q2.weightResults[i].st = "done"
                          /\ q2.weightResults[i].weight # NoWeight}

\* C29: the cache write of a call that is under way is made whatever
\* happened to the cache meanwhile: handling clearCache leaves the
\* outstanding calls outstanding, and the step in which a call is answered
\* with a weight puts the entry of its key, with that weight and the time
\* of the answer, and leaves the entry of every other key as it was.
C29_WriteAfterClear ==
  [][\A r \in Reqs :
       /\ (weightCache # EmptyMap /\ weightCache' = EmptyMap) =>
            Outstanding(req'[r]) = Outstanding(req[r])
       /\ \A i \in Extracted(req[r], req'[r]) :
            LET key == KeyAt(req[r], i)
            IN /\ key \in DOMAIN weightCache'
               /\ weightCache'[key] = [weight |-> req'[r].weightResults[i].weight,
                                       timestamp |-> now]
               /\ \A k \in (DOMAIN weightCache \cup DOMAIN weightCache') \ {key} :
                    /\ k \in DOMAIN weightCache
                    /\ k \in DOMAIN weightCache'
                    /\ weightCache'[k] = weightCache[k]]_vars

\* two calls of one request were under way together; the first was
\* answered and its weight stored, then the cache was cleared (its entry
\* is gone), then the second was answered: its entry is in the cache
C29_Witness ==
  \E r \in Reqs : \E i, j \in 1..Len(req[r].weightResults) :
    LET q == req[r]
    IN /\ deployment = "direct"
       /\ i # j
       /\ q.weightResults[i].st = "done" /\ ~q.weightResults[i].fromCache
       /\ q.weightResults[i].weight # NoWeight
       /\ KeyAt(q, i) \in DOMAIN dropped
       /\ KeyAt(q, i) \notin DOMAIN weightCache
       /\ q.weightResults[j].st = "done" /\ ~q.weightResults[j].fromCache
       /\ q.weightResults[j].weight # NoWeight
       /\ KeyAt(q, j) \in DOMAIN weightCache
       /\ weightCache[KeyAt(q, j)].weight = q.weightResults[j].weight

\* the calls of request q that this step answers without a weight
Failed(q, q2) ==
  {i \in Outstanding(q) : /\ i <= Len(q2.weightResults)
                          /\ q2.weightResults[i].st = "done"
                          /\ q2.weightResults[i].weight = NoWeight}

\* C30: an extraction that fails or finds no weight (a null weight, the
\* navigation reply, a thrown error) leaves the weight cache as it was, and
\* an entry is created or replaced only in the step in which a call for its
\* key is answered with a weight, which is the weight stored.
C30_NoEntryWithoutWeight ==
  [][/\ \A r \in Reqs : Failed(req[r], req'[r]) # {} => weightCache' = weightCache
     /\ \A k \in DOMAIN weightCache' :
          (k \notin DOMAIN weightCache \/ weightCache'[k] # weightCache[k]) =>
            \E r \in Reqs : \E i \in Extracted(req[r], req'[r]) :
              /\ KeyAt(req[r], i) = k
              /\ weightCache'[k].weight = req'[r].weightResults[i].weight]_vars

\* of the two calls of a request the first was answered with a weight,
\* which is in the cache, and the second with the navigation reply: the
\* cache holds the first entry and none for the second key
C30_Witness ==
  \E r \in Reqs :
    LET q == req[r]
    IN /\ Len(q.weightResults) = 2
       /\ q.weightResults[1].st = "done" /\ ~q.weightResults[1].fromCache
       /\ q.weightResults[1].weight # NoWeight
       /\ q.weightResults[2].st = "done"
       /\ q.weightResults[2].error = "navigation"
       /\ q.weightResults[2].weight = NoWeight
       /\ DOMAIN weightCache = {KeyAt(q, 1)}
       /\ weightCache[KeyAt(q, 1)].weight = q.weightResults[1].weight

\* the fan-out limit the specification gives each deployment
ChunkSize == IF deployment = "tab" THEN 1 ELSE 5

\* the number of the chunk that the n-th call sent by a request falls in
ChunkOf(n) == (n - 1) \div ChunkSize

\* the n-th call sent by request q has completed
CallCompleted(q, n) == q.weightResults[IndexOf(q.uniqueFNSKUs, q.sent[n])].st = "done"

C32_EventuallyOneResponse ==
  /\ \A r \in Reqs : (req[r].pc # "idle") ~> (req[r].pc = "idle")
  /\ [][\A r \in Reqs :
          (req[r].pc # "idle" /\ req'[r].pc = "idle") =>
            (req[r].pc = "done" /\ req[r].result # NoResult)]_vars

\* the page of the Rodeo tab was replaced while its script held the message
\* (the channel closed without a response), no Rodeo tab is registered any
\* more, and the request has its result
C32_Witness ==
  \E r \in Reqs :
    /\ req[r].pc = "done"
    /\ req[r].result.kind = "Error"
    /\ req[r].rodeoResult.error = "thrown"
    /\ agent["rodeo"].href # HomeLocation("rodeo")
    /\ connectedTabs["rodeo"] = NoTab

\* the requests that have a navigateAndExtract message with agent a
CallsAt(a) == {r \in Callers : InFlight(a, req[r]) # {}}

\* C33: whatever requests run at the same time, an agent has at most one
\* navigateAndExtract call outstanding.
C33_OneCallPerAgent == \A a \in Agents : Cardinality(CallsAt(a)) <= 1

\* the location that the request of a data-ready message m of agent a
\* targeted
TargetOf(a, m) ==
  IF a = "rodeo" THEN RodeoUrl(m.warehouseId, m.payload)
  ELSE FCResearchUrl(m.warehouseId, m.payload)

\* C34: a data-ready message sent on resume names the batch id or item of
\* a pending request and carries what was extracted from the document at
\* the location that this request targeted, never from another page.
C34_ExtractedAtTarget ==
  [][\A a \in Agents :
       Delivers(a) =>
         LET m == agent'[a].dataReady[Len(agent'[a].dataReady)]
         IN /\ agent'[a].href = TargetOf(a, m)
            /\ m.data = Extraction(a, agent'[a].document)
            /\ m.payload = agent[a].sessionStorage[PendingKey(a)].payload]_vars

\* the step takes a rodeoDataReady / fcresearchDataReady message of agent a
\* off the way to the background script
Acknowledges(a) ==
  agent[a].dataReady # <<>> /\ agent'[a].dataReady = Tail(agent[a].dataReady)

\* C35: the handling of a rodeoDataReady or fcresearchDataReady message
\* leaves the weight cache, the registry of the tabs and every request in
\* flight as they were.
C35_DataReadyChangesNothing ==
  [][\A a \in Agents :
       Acknowledges(a) =>
         /\ weightCache' = weightCache
         /\ connectedTabs' = connectedTabs
         /\ req' = req]_vars

\* the message of the FC Research agent, which carried a weight, has been
\* handled while the request awaits its weights: the cache is still empty
C35_Witness ==
  /\ agent["fcresearch"].resume.outcome = "delivered"
  /\ agent["fcresearch"].last.weight # NoWeight
  /\ agent["fcresearch"].dataReady = <<>>
  /\ \E r \in Reqs : req[r].pc = "awaitWeights"
  /\ weightCache = EmptyMap

\* the step hands request r the answer to its call to the tab of the role
Answered(r, role) ==
  IF role = "rodeo" THEN req[r].pc = "awaitRodeo" /\ req'[r].pc # "awaitRodeo"
  ELSE /\ req[r].pc = "awaitWeights"
       /\ \E i \in Outstanding(req[r]) : req'[r].weightResults[i].st = "done"

\* C36: a request that passed the check of the tabs and then lost an agent
\* ends like any other. The call that is answered when its role has no tab
\* gives an error: for the Rodeo tab the request ends with the error
\* object of the Rodeo step, for the FC Research tab the identifier stays
\* without a weight and nothing is cached for it; the request then ends
\* with the statistics of the weights that were found, or with an error
\* object if none was.
C36_VanishedAgent ==
  [][\A r \in Reqs :
       /\ (deployment = "tab" /\ Answered(r, "rodeo") /\ connectedTabs["rodeo"] = NoTab) =>
            /\ req'[r].pc = "done"
            /\ req'[r].result.kind = "Error"
            /\ req'[r].result.error = "rodeoError"
       /\ (deployment = "tab" /\ Answered(r, "fcresearch")
             /\ connectedTabs["fcresearch"] = NoTab) =>
            /\ \A i \in Outstanding(req[r]) :
                 req'[r].weightResults[i].st = "done" =>
                   /\ req'[r].weightResults[i].weight = NoWeight
                   /\ req'[r].weightResults[i].error = "thrown"
            /\ weightCache' = weightCache
            /\ req'[r].pc = "done" =>
                 /\ req'[r].result = Aggregate(req[r].fnskus, req[r].uniqueFNSKUs,
                                               req'[r].weightMap)
                 /\ \A f \in DOMAIN req'[r].weightMap :
                      \E j \in 1..Len(req'[r].weightResults) :
                        /\ req'[r].uniqueFNSKUs[j] = f
                        /\ req'[r].weightResults[j].weight = req'[r].weightMap[f]
                        /\ req'[r].weightResults[j].weight # NoWeight]_vars

\* the FC Research tab was closed during the request: the call for one
\* identifier was rejected, the weight of another had been found before,
\* and the request has its statistics
C36_Witness ==
  \E r \in Reqs :
    /\ deployment = "tab"
    /\ connectedTabs["fcresearch"] = NoTab
    /\ req[r].pc = "done"
    /\ req[r].result.kind = "BatchResult"
    /\ \E i, j \in 1..Len(req[r].weightResults) :
         /\ req[r].weightResults[i].error = "thrown"
         /\ ~req[r].weightResults[j].fromCache
         /\ req[r].weightResults[j].weight # NoWeight

\* the roles under which a tab is registered
RolesOf(tabId) == {role \in Roles : connectedTabs[role] = tabId}

\* C37: whatever tabs announce themselves, move or are closed, no tab is
\* registered under more than one role.
C37_OneRolePerTab == \A tabId \in Tabs : Cardinality(RolesOf(tabId)) <= 1

\* the fetchBatchData requests of batch b that have not been answered yet
InFlightFor(b) == {r \in Callers : req[r].pc # "idle" /\ req[r].batchId = b}

\* C38: the picking console has at most one fetchBatchData request per
\* batch in flight, and processingBatches holds exactly the batches with a
\* request in flight: a batch enters it with its request and leaves it
\* when the request is over, with a result, an error result or a rejection.
C38_OneFetchPerBatch ==
  /\ \A b \in Rows : Cardinality(InFlightFor(b)) <= 1
  /\ console.processingBatches = {b \in Rows : InFlightFor(b) # {}}

\* the fetch of B1 is over with an error result, which is kept, and B1 has
\* left processingBatches, while the fetch of B2 is under way
C38_Witness ==
  /\ console.processingBatches = {"B2"}
  /\ "B1" \in DOMAIN console.batchResults
  /\ console.batchResults["B1"].kind = "Error"
  /\ \E r \in Callers : req[r].pc = "awaitWeights" /\ req[r].batchId = "B2"

\* the picking console holds the status that the registry has
InSync ==
  /\ console.connectionStatus.allConnected = areAllTabsConnected(connectedTabs)
  /\ console.connectionStatus.missing = getMissingTabs(connectedTabs)

\* C39: in the tab deployment, once the registry changes no more the
\* picking console comes to hold the status of the registry and keeps it;
\* and however the registry changes, the console holds its status again
\* and again, so the gate of the console neither refuses for ever when
\* all tabs are registered nor lets through for ever when one is missing.
C39_StatusCatchesUp ==
  /\ deployment = "tab" =>
       ([]<><<connectedTabs' # connectedTabs>>_vars \/ <>[]InSync)
  /\ deployment = "tab" => []<>InSync

\* the Rodeo tab was closed when no picking console tab was registered, so
\* no connectionStatusUpdate was sent; the console has the status from its
\* poll
C39_Witness ==
  /\ deployment = "tab"
  /\ connectedTabs["pickingConsole"] = NoTab
  /\ connectedTabs["rodeo"] = NoTab
  /\ connectedTabs["fcresearch"] # NoTab
  /\ broadcast = NoBroadcast
  /\ InSync

\* C40: the statistics of every BatchResult are consistent: at least one
\* item has a weight and at most all, at least one identifier is unique
\* and at most as many as there are items, and the rounded average lies
\* between the rounded minimum and the rounded maximum.
C40_ConsistentStatistics ==
  \A r \in Reqs :
    req[r].result.kind = "BatchResult" =>
      /\ 1 <= req[r].result.itemsWithWeight
      /\ req[r].result.itemsWithWeight <= req[r].result.totalItems
      /\ 1 <= req[r].result.uniqueSKUs
      /\ req[r].result.uniqueSKUs <= req[r].result.totalItems
      /\ req[r].result.minWeight <= req[r].result.averageWeight
      /\ req[r].result.averageWeight <= req[r].result.maxWeight

====
